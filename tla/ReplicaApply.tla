---------------------------- MODULE ReplicaApply ----------------------------
(***************************************************************************)
(* A follower of one partition applying batches that its leader reserved:  *)
(* the bounded reorder window of DurableApplyQueue, the receiver's own     *)
(* sequencer and batch states, the workers of the physical lanes, and the  *)
(* leader, which may send a batch early, late, twice, or again after an    *)
(* error.  Each batch is placed on a lane of its own, so writes finish in  *)
(* any order.                                                              *)
(***************************************************************************)
EXTENDS Naturals, Sequences, FiniteSetsExt

CONSTANTS
    Requests,     \* calls of append_from_peer
    MaxBatch,     \* bound: batches the leader reserved
    MaxPending,   \* max_pending_per_partition
    MaxGap,       \* max_gap_batches
    MaxPendingBytes,     \* max_pending_bytes_per_partition, in payloads of BatchBytes
    BatchBytes,   \* the payload size of each batch
    Contents,     \* the digests a live request may carry with the batch
    ReplicaScenarios     \* what is fixed from the start: whether a write fence guards the
                  \* follower (requires_physical_admission), the batches with a
                  \* producer, those that are the chunks of one atomic group, whether
                  \* the leader restarts, and bounds on failures and restarts

Batches == 0 .. MaxBatch - 1
Unknown == "unknown"  \* payload_digest is None
Hole == "hole"        \* a batch that recovery put in a gap: its payload is empty
Zero == "zero"        \* [0; 16]

ASSUME ReplicaApplyAssumption ==
    /\ {MaxBatch, MaxPendingBytes, MaxPending, MaxGap} \subseteq Nat \ {0}
    /\ BatchBytes \in [Batches -> Nat \ {0}]
    /\ Contents \cap {Unknown, Hole, Zero} = {}
    /\ ReplicaScenarios \subseteq [guarded : BOOLEAN, identified : SUBSET Batches,
                            chunks : SUBSET Batches, replays : BOOLEAN, failures : Nat,
                            restarts : Nat]

VARIABLES
    scenario,
    call,      \* [Requests -> its state, batch, content]
    inbox,     \* the admission worker's channel
    cursor,    \* PartitionAdmission.next_batch_id (MaxBatch + 1: no entry yet)
    buffered,  \* PartitionAdmission.pending: content and waiters per batch
    work,      \* what the admission worker is doing
    status,    \* the receiver's batch states
    digest,    \* the content each of its batches was reserved with
    nextBatch, \* the receiver's sequencer
    groupNext, \* the group's next_sequence at the receiver
    tail,      \* the group's batch_ids at the receiver
    lane,      \* dispatched work: batch -> its waiters
    stored,    \* the batches durable in the receiver's log, with content
    failures, restarts

replicaVars == <<scenario, call, inbox, cursor, buffered, work, status, digest,
                 nextBatch, groupNext, tail, lane, stored, failures, restarts>>

-----------------------------------------------------------------------------
NoFollowerEntry == MaxBatch + 1
Resting == [pc |-> "idle"]
guarded == scenario.guarded
chunks == scenario.chunks
identified == scenario.identified

ReplicaInit ==
    /\ scenario \in ReplicaScenarios
    /\ call = [r \in Requests |-> [state |-> "new", batch |-> 0, content |-> Unknown]]
    /\ inbox = <<>>
    /\ cursor = NoFollowerEntry
    /\ buffered = <<>>
    /\ work = Resting
    /\ status = [b \in Batches |-> "None"]
    /\ digest = [b \in Batches |-> Unknown]
    /\ nextBatch = 0
    /\ groupNext = 0
    /\ tail = <<>>
    /\ lane = <<>>
    /\ stored = <<>>
    /\ failures = scenario.failures
    /\ restarts = scenario.restarts

(* respond_all. *)
Answered(waiters, state) ==
    [r \in Requests |-> IF r \in waiters THEN [call[r] EXCEPT !.state = state] ELSE call[r]]

ChunkSequence(b) == Cardinality({c \in chunks : c < b})

Without(f, b) == [x \in DOMAIN f \ {b} |-> f[x]]
With(f, b, v) == [x \in DOMAIN f \cup {b} |-> IF x = b THEN v ELSE f[x]]

coordVars == <<status, digest, nextBatch, groupNext, tail>>
fixedVars == <<scenario, restarts>>

(* The leader sends a batch, and sends it again when it is not acknowledged *)
(* or when the leader restarts (replay_replication).  A live request carries *)
(* the payload's digest if the batch has a producer or a group, a replay    *)
(* the one of its producer only, and else [0; 16].                         *)
SentDigests(b) ==
    (IF b \in identified \cup chunks THEN Contents ELSE {Zero})
        \cup (IF scenario.replays /\ b \notin identified THEN {Zero} ELSE {})

SendBatch(r, b, content) ==
    /\ call[r].state = "new"
    /\ content \in SentDigests(b)
    /\ call' = [call EXCEPT ![r] = [state |-> "waiting", batch |-> b, content |-> content]]
    /\ inbox' = Append(inbox, r)
    /\ UNCHANGED <<cursor, buffered, work, coordVars, lane, stored, failures, fixedVars>>

-----------------------------------------------------------------------------
(* admit.  A partition seen first asks the coordinator for its next batch. *)
Expected == IF cursor = NoFollowerEntry THEN nextBatch ELSE cursor

PendingBytes == MapThenSumSet(LAMBDA b : BatchBytes[b], DOMAIN buffered)

TakeReplica(r) ==
    /\ work = Resting
    /\ inbox # <<>> /\ r = Head(inbox)
    /\ inbox' = Tail(inbox)
    /\ cursor' = Expected

(* An older batch goes straight to reserve_and_dispatch; the expected one   *)
(* moves the cursor when it is accepted.                                   *)
AdmitInOrder(r) ==
    /\ TakeReplica(r)
    /\ call[r].batch <= Expected
    /\ work' = [pc |-> "plan", batch |-> call[r].batch, content |-> call[r].content,
                waiters |-> {r}, moves |-> call[r].batch = Expected]
    /\ UNCHANGED <<call, buffered, coordVars, lane, stored, failures, fixedVars>>

(* Mutant: a full window takes one more batch. *)
OverLimitOneMore(b) ==
    \/ b - Expected > MaxGap
    \/ b \notin DOMAIN buffered /\ Cardinality(DOMAIN buffered) > MaxPending
    \/ b \notin DOMAIN buffered /\ PendingBytes + BatchBytes[b] > MaxPendingBytes

OverLimit(b) ==
    \/ b - Expected > MaxGap
    \/ b \notin DOMAIN buffered /\ Cardinality(DOMAIN buffered) >= MaxPending
    \/ b \notin DOMAIN buffered /\ PendingBytes + BatchBytes[b] > MaxPendingBytes

AdmitRefused(r) ==
    /\ TakeReplica(r)
    /\ call[r].batch > Expected
    /\ OverLimit(call[r].batch)
    /\ call' = Answered({r}, "limited")
    /\ UNCHANGED <<buffered, work, coordVars, lane, stored, failures, fixedVars>>

(* An early batch waits for the gap; an identical one waits along with it. *)
AdmitEarly(r) ==
    /\ TakeReplica(r)
    /\ LET b == call[r].batch IN
       /\ b > Expected
       /\ ~OverLimit(b)
       /\ IF b \notin DOMAIN buffered
          THEN /\ buffered' = With(buffered, b, [content |-> call[r].content, waiters |-> {r}])
               /\ UNCHANGED call
          ELSE IF buffered[b].content = call[r].content
          THEN buffered' = [buffered EXCEPT ![b].waiters = @ \cup {r}] /\ UNCHANGED call
          ELSE call' = Answered({r}, "refused") /\ UNCHANGED buffered
    /\ UNCHANGED <<work, coordVars, lane, stored, failures, fixedVars>>

-----------------------------------------------------------------------------
(* reserve_and_dispatch: plan_replica_append_from_peer, reserve_replica.    *)

Planning == work.pc = "plan"
Accepted == IF work.moves THEN [pc |-> "drain"] ELSE Resting

(* The identity of the batch held differs; a recovered one may not know its *)
(* digest (existing.payload_digest.is_none_or), a hole matches nothing.     *)
Conflicts == digest[work.batch] \notin {Unknown, work.content}

(* Mutant: a batch that is still in flight is answered like a stored one. *)
PlanDuplicateInFlight ==
    /\ Planning
    /\ status[work.batch] \in {"Committed", "Pending"} /\ ~Conflicts
    /\ call' = Answered(work.waiters, "ok")
    /\ work' = Accepted
    /\ cursor' = IF work.moves THEN cursor + 1 ELSE cursor
    /\ UNCHANGED <<inbox, buffered, coordVars, lane, stored, failures, fixedVars>>

PlanDuplicate ==
    /\ Planning
    /\ status[work.batch] = "Committed" /\ ~Conflicts
    /\ call' = Answered(work.waiters, "ok")
    /\ work' = Accepted
    /\ cursor' = IF work.moves THEN cursor + 1 ELSE cursor
    /\ UNCHANGED <<inbox, buffered, coordVars, lane, stored, failures, fixedVars>>

(* Mutant: a batch that is not the next placement is dropped unanswered. *)
PlanRefusedSilently ==
    /\ Planning
    /\ \/ status[work.batch] # "None" /\ Conflicts
       \/ status[work.batch] = "Pending"
       \/ status[work.batch] = "Aborted" /\ guarded
       \/ status[work.batch] = "None" /\ work.batch # nextBatch
       \/ status[work.batch] = "None" /\ work.batch \in chunks
             /\ ChunkSequence(work.batch) # groupNext
    /\ work' = Resting
    /\ UNCHANGED <<call, inbox, cursor, buffered, coordVars, lane, stored, failures, fixedVars>>

(* Another identity, a batch in flight, or not the exact next placement; a  *)
(* guarded receiver does not revive an aborted batch.                      *)
PlanRefused ==
    /\ Planning
    /\ \/ status[work.batch] # "None" /\ Conflicts
       \/ status[work.batch] = "Pending"
       \/ status[work.batch] = "Aborted" /\ guarded
       \/ status[work.batch] = "None" /\ work.batch # nextBatch
       \/ status[work.batch] = "None" /\ work.batch \in chunks
             /\ ChunkSequence(work.batch) # groupNext
    /\ call' = Answered(work.waiters, "refused")
    /\ work' = Resting
    /\ UNCHANGED <<inbox, cursor, buffered, coordVars, lane, stored, failures, fixedVars>>

(* register_atomic_chunk. *)
Registers(b) == b \in chunks => ChunkSequence(b) = groupNext

RegisterChunk(b) ==
    IF b \in chunks THEN groupNext' = groupNext + 1 /\ tail' = Append(tail, b)
                    ELSE UNCHANGED <<groupNext, tail>>

Dispatched ==
    /\ lane' = With(lane, work.batch, [content |-> work.content, waiters |-> work.waiters])
    /\ work' = Accepted
    /\ cursor' = IF work.moves THEN cursor + 1 ELSE cursor

PlanNew ==
    /\ Planning /\ ~guarded
    /\ status[work.batch] = "None" /\ work.batch = nextBatch
    /\ Registers(work.batch)
    /\ status' = [status EXCEPT ![work.batch] = "Pending"]
    /\ digest' = [digest EXCEPT ![work.batch] = work.content]
    /\ nextBatch' = nextBatch + 1
    /\ RegisterChunk(work.batch)
    /\ Dispatched
    /\ UNCHANGED <<call, inbox, buffered, stored, failures, fixedVars>>

(* An aborted batch becomes Pending again, and then its chunk is            *)
(* registered, which may fail.                                             *)
PlanRevived ==
    /\ Planning /\ ~guarded
    /\ status[work.batch] = "Aborted" /\ ~Conflicts
    /\ status' = [status EXCEPT ![work.batch] = "Pending"]
    /\ digest' = [digest EXCEPT ![work.batch] = work.content]
    /\ IF Registers(work.batch)
       THEN RegisterChunk(work.batch) /\ Dispatched /\ UNCHANGED call
       ELSE /\ call' = Answered(work.waiters, "refused")
            /\ work' = Resting
            /\ UNCHANGED <<groupNext, tail, lane, cursor>>
    /\ UNCHANGED <<inbox, buffered, nextBatch, stored, failures, fixedVars>>

(* cancel_replica_append and a lane that wrote nothing: fail, which aborts  *)
(* the batch and takes its chunk back only from the tail of the group.     *)
Failed(b) ==
    /\ status' = [status EXCEPT ![b] = "Aborted"]
    /\ IF b \in chunks /\ tail # <<>> /\ tail[Len(tail)] = b
          /\ groupNext = ChunkSequence(b) + 1
       THEN groupNext' = groupNext - 1 /\ tail' = SubSeq(tail, 1, Len(tail) - 1)
       ELSE UNCHANGED <<groupNext, tail>>
    /\ UNCHANGED <<digest, nextBatch>>

(* The append worker is gone: cancel_replica_append. *)
DispatchFails ==
    /\ Planning /\ ~guarded
    /\ failures > 0 /\ failures' = failures - 1
    /\ \/ status[work.batch] = "None" /\ work.batch = nextBatch /\ nextBatch' = nextBatch + 1
       \/ status[work.batch] = "Aborted" /\ ~Conflicts /\ UNCHANGED nextBatch
    /\ Registers(work.batch)
    /\ status' = [status EXCEPT ![work.batch] = "Aborted"]
    /\ digest' = [digest EXCEPT ![work.batch] = work.content]
    /\ call' = Answered(work.waiters, "failed")
    /\ work' = Resting
    /\ UNCHANGED <<inbox, cursor, buffered, groupNext, tail, lane, stored, fixedVars>>

(* A guarded batch is executed by the admission worker itself: allocated    *)
(* by the lane under its guard, written, and only then accepted.           *)
PlanGuarded ==
    /\ Planning /\ guarded
    /\ status[work.batch] = "None" /\ work.batch = nextBatch
    /\ Registers(work.batch)
    /\ work' = [work EXCEPT !.pc = "guarded"]
    /\ UNCHANGED <<call, inbox, cursor, buffered, coordVars, lane, stored, failures, fixedVars>>

GuardRefuses ==
    /\ work.pc = "guarded"
    /\ failures > 0 /\ failures' = failures - 1
    /\ call' = Answered(work.waiters, "refused")
    /\ work' = Resting
    /\ UNCHANGED <<inbox, cursor, buffered, coordVars, lane, stored, fixedVars>>

GuardCommits ==
    /\ work.pc = "guarded"
    /\ status' = [status EXCEPT ![work.batch] = "Pending"]
    /\ digest' = [digest EXCEPT ![work.batch] = work.content]
    /\ nextBatch' = nextBatch + 1
    /\ RegisterChunk(work.batch)
    /\ work' = [work EXCEPT !.pc = "writing"]
    /\ UNCHANGED <<call, inbox, cursor, buffered, lane, stored, failures, fixedVars>>

GuardedWritten ==
    /\ work.pc = "writing"
    /\ status' = [status EXCEPT ![work.batch] = "Committed"]
    /\ stored' = With(stored, work.batch, work.content)
    /\ call' = Answered(work.waiters, "ok")
    /\ work' = Accepted
    /\ cursor' = IF work.moves THEN cursor + 1 ELSE cursor
    /\ UNCHANGED <<inbox, buffered, digest, nextBatch, groupNext, tail, lane, failures,
                   fixedVars>>

GuardedFails ==
    /\ work.pc = "writing"
    /\ failures > 0 /\ failures' = failures - 1
    /\ \/ /\ Failed(work.batch)
          /\ UNCHANGED stored
          /\ call' = Answered(work.waiters, "failed")
       \/ /\ UNCHANGED coordVars
          /\ stored' \in {stored, With(stored, work.batch, work.content)}
          /\ call' = Answered(work.waiters, "ambiguous")
    /\ work' = Resting
    /\ UNCHANGED <<inbox, cursor, buffered, lane, fixedVars>>

(* drain_contiguous: the next buffered batch, until one is not accepted. *)
Drain ==
    /\ work.pc = "drain"
    /\ IF cursor \in DOMAIN buffered
       THEN /\ work' = [pc |-> "plan", batch |-> cursor, content |-> buffered[cursor].content,
                        waiters |-> buffered[cursor].waiters, moves |-> TRUE]
            /\ buffered' = Without(buffered, cursor)
       ELSE work' = Resting /\ UNCHANGED buffered
    /\ UNCHANGED <<call, inbox, cursor, coordVars, lane, stored, failures, fixedVars>>

-----------------------------------------------------------------------------
(* The lane's append worker: execute_replica_append_group and              *)
(* finish_replica_append.                                                  *)
Settle(b, state) ==
    /\ lane' = Without(lane, b)
    /\ call' = Answered(lane[b].waiters, state)

LaneWrites(b) ==
    /\ b \in DOMAIN lane
    /\ status' = [status EXCEPT ![b] = "Committed"]
    /\ stored' = With(stored, b, lane[b].content)
    /\ Settle(b, "ok")
    /\ UNCHANGED <<inbox, cursor, buffered, work, digest, nextBatch, groupNext, tail, failures,
                   fixedVars>>

LaneWritesNothing(b) ==
    /\ b \in DOMAIN lane
    /\ failures > 0 /\ failures' = failures - 1
    /\ Failed(b)
    /\ Settle(b, "failed")
    /\ UNCHANGED <<inbox, cursor, buffered, work, stored, fixedVars>>

(* The lane cannot tell: the batch stays Pending. *)
LaneAmbiguous(b) ==
    /\ b \in DOMAIN lane
    /\ failures > 0 /\ failures' = failures - 1
    /\ stored' \in {stored, With(stored, b, lane[b].content)}
    /\ Settle(b, "ambiguous")
    /\ UNCHANGED <<inbox, cursor, buffered, work, coordVars, fixedVars>>

(* A restart: the queue and its waiters are gone, and each write in flight  *)
(* is durable or not.  Recovery rebuilds the batches from the log, fills   *)
(* the gaps with aborted ones, and keeps a digest with a producer or a     *)
(* group only.  It refuses a group with a gap (RecoveryOpens), and so such *)
(* a follower never comes back.                                            *)
InFlight ==
    [b \in DOMAIN lane \cup (IF work.pc = "writing" THEN {work.batch} ELSE {}) |->
        IF b \in DOMAIN lane THEN lane[b].content ELSE work.content]

RestartFollower ==
    /\ restarts > 0 /\ restarts' = restarts - 1
    /\ \E kept \in SUBSET DOMAIN InFlight, end \in 0 .. MaxBatch :
       LET log == [b \in DOMAIN stored \cup kept |->
                     IF b \in kept THEN InFlight[b] ELSE stored[b]]
           durable == chunks \cap DOMAIN log
       IN /\ DOMAIN log \subseteq 0 .. end - 1 /\ (end > 0 => end - 1 \in DOMAIN log)
          /\ durable = {b \in chunks : b < end}
          /\ stored' = log
          /\ status' = [b \in Batches |-> CASE b \in DOMAIN log -> "Committed"
                                             [] b \in 0 .. end - 1 \ DOMAIN log -> "Aborted"
                                             [] OTHER -> "None"]
          /\ digest' = [b \in Batches |->
                          CASE b \in DOMAIN log \cap (identified \cup chunks) -> log[b]
                            [] b \in 0 .. end - 1 \ DOMAIN log -> Hole
                            [] OTHER -> Unknown]
          /\ nextBatch' = end
          /\ groupNext' = Cardinality(durable)
          /\ tail' = [i \in 1 .. Cardinality(durable) |->
                       CHOOSE b \in durable : ChunkSequence(b) = i - 1]
    /\ call' = Answered({r \in Requests : call[r].state = "waiting"}, "lost")
    /\ inbox' = <<>> /\ cursor' = NoFollowerEntry /\ buffered' = <<>> /\ work' = Resting /\ lane' = <<>>
    /\ UNCHANGED <<scenario, failures>>

AdmissionStep ==
    \/ \E r \in Requests : AdmitInOrder(r) \/ AdmitRefused(r) \/ AdmitEarly(r)
    \/ PlanDuplicate \/ PlanRefused \/ PlanNew \/ PlanRevived \/ DispatchFails \/ PlanGuarded
    \/ GuardRefuses \/ GuardCommits \/ GuardedWritten \/ GuardedFails \/ Drain

LaneStep ==
    \E b \in Batches : LaneWrites(b) \/ LaneWritesNothing(b) \/ LaneAmbiguous(b)

ReplicaNext ==
    \/ \E r \in Requests, b \in Batches, c \in Contents \cup {Zero} : SendBatch(r, b, c)
    \/ AdmissionStep \/ LaneStep \/ RestartFollower

ReplicaSpec ==
    /\ ReplicaInit /\ [][ReplicaNext]_replicaVars
    /\ WF_replicaVars(AdmissionStep) /\ WF_replicaVars(LaneStep)

-----------------------------------------------------------------------------
(* A batch acknowledged to the leader is in the follower's log for good,    *)
(* with the digest that the leader sent, although recovery forgets the     *)
(* digest of a batch without a producer or a group (reserve_replica,       *)
(* finish_replica_append).                                                 *)
AckedStored ==
    \A r \in Requests :
        call[r].state = "ok" =>
            call[r].batch \in DOMAIN stored /\ stored[call[r].batch] = call[r].content

(* A batch that resends are told is in flight (ReplicaInFlight) is being    *)
(* written, or a write of it ended without telling what happened.          *)
InFlightIsWritten ==
    \A b \in Batches :
        status[b] = "Pending" =>
            \/ b \in DOMAIN InFlight
            \/ \E r \in Requests : call[r].batch = b /\ call[r].state = "ambiguous"

(* A leader that replays its recovered log to a follower which holds the    *)
(* batch is acknowledged: "the transport's normal idempotent follower      *)
(* append" (resume_recovered_replication).                                 *)
ReplayIdempotent ==
    [][\A r \in Requests :
          call[r].content = Zero /\ call[r].state = "waiting" /\ call[r].batch \in DOMAIN stored
              => call'[r].state # "refused"]_replicaVars

(* The cursor of the reorder window never passes the receiver's sequencer,  *)
(* and no buffered batch is left behind the cursor, at it, or far beyond   *)
(* it (admit, drain_contiguous).                                           *)
WindowOrdered ==
    /\ cursor # NoFollowerEntry => cursor <= nextBatch
    /\ work = Resting => \A b \in DOMAIN buffered : cursor < b /\ b - cursor <= MaxGap

(* The window is in order, and admit keeps it within its number of batches  *)
(* and its number of bytes.                                                *)
WindowBounded ==
    /\ WindowOrdered
    /\ Cardinality(DOMAIN buffered) <= MaxPending
    /\ PendingBytes <= MaxPendingBytes

(* A call is answered, or it waits in the window for an earlier batch       *)
(* (append_with_source blocks until admit or the lane's worker answers).   *)
CallsAnswered ==
    \A r \in Requests :
        []<>(call[r].state # "waiting" \/ call[r].batch \in DOMAIN buffered)

=============================================================================
