------------------------------ MODULE Partition ------------------------------
(***************************************************************************)
(* The partition coordinator of the engine: one PartitionState, owned by   *)
(* one coordinator thread that handles one command at a time.  Every       *)
(* action is one command handler of run_coordinator, run to its end.       *)
(*                                                                         *)
(* Abstractions.                                                           *)
(*  - A batch ID and its placement sequence are the same number: the       *)
(*    sequencer starts both at 0 and advances both by one, and recovery    *)
(*    refuses an extent where they differ.                                 *)
(*  - A payload (bytes, digest, event ID) is identified by its record      *)
(*    count: two requests carry the same payload iff their counts agree.   *)
(*  - next_sequence of an atomic group is Len(ids): register and rollback  *)
(*    move both together.  Byte and record totals of a group are left out. *)
(*  - replica_acks only ever holds bit 0, so it is the "at least one" in   *)
(*    the durable replica count of a completed batch.                      *)
(*  - A request that a handler refuses leaves the state alone, and is not  *)
(*    a step; a refusal that does change state is one.                     *)
(***************************************************************************)
EXTENDS Integers, Sequences, FiniteSets

CONSTANTS
  Lanes,             \* virtual lane (shard) identifiers
  InitialRing,       \* the lanes of ring epoch 1, in placement order
  Rings,             \* the rings a reconfiguration may install
  Producers,         \* producer identifiers
  Txns,              \* atomic group (transaction) identifiers
  MaxRecords,        \* largest record count of one batch
  MaxBatches,        \* bound: batch IDs are below it
  MaxOffset,         \* the end of the offset space (u64::MAX in the code)
  MaxRingEpoch, MaxLeaderEpoch, MaxProducerEpoch, MaxGeneration,  \* bounds
  MaxWaiters,        \* bound on parked wait_until_visible calls
  ReplicationFactor, \* configured replication factor
  None               \* the absent Option

ASSUME PartitionAssumption ==
  /\ MaxRecords \in Nat \ {0}
  /\ MaxBatches \in Nat
  /\ MaxOffset \in Nat
  /\ MaxRingEpoch \in Nat /\ MaxLeaderEpoch \in Nat
  /\ MaxProducerEpoch \in Nat /\ MaxGeneration \in Nat
  /\ MaxWaiters \in Nat
  /\ ReplicationFactor \in Nat \ {0}
  /\ InitialRing \in Seq(Lanes) /\ InitialRing # << >>
  /\ Rings \subseteq Seq(Lanes) /\ << >> \notin Rings
  /\ None \notin Nat

VARIABLES
  ringEpoch, virtualLanes, leaderEpoch, nextBatch, nextOffset,  \* sequencer
  firstKey, batches,       \* dense batch index: keys firstKey..nextBatch-1
  logStart,
  contiguous, stable, replicated,  \* cached watermark cursors [key, end]
  policy,                  \* [generation, minIsr]
  atomicGroups, finalizedGroups,
  producers, dedup,
  waiters,                 \* parked wait_until_visible calls
  inFlight                 \* reservations whose append result is still out

sequencerVars == <<ringEpoch, virtualLanes, leaderEpoch, nextBatch, nextOffset>>
watermarkVars == <<contiguous, stable, replicated, waiters>>
groupVars == <<atomicGroups, finalizedGroups>>
producerVars == <<producers, dedup>>
partitionVars == <<sequencerVars, firstKey, batches, logStart, watermarkVars,
                   policy, groupVars, producerVars, inFlight>>

-----------------------------------------------------------------------------
LeaderEpochs == 0..MaxLeaderEpoch
ProducerEpochs == 0..MaxProducerEpoch
Counts == 1..MaxRecords
Status == {"Pending", "Committed", "Unresolved", "Aborted"}
Outcome == {"Committed", "Aborted"}
Modes == {"Ordered", "Replicated"}

ProducerIdentity == [id : Producers, epoch : ProducerEpochs, seq : Nat]
GroupIdentity == [txn : Txns, chunk : Nat]
Cursor == [key : Nat, end : Nat]
BatchRuntime == [first : Nat, count : Counts, lane : Lanes, ringEpoch : Nat,
                 leaderEpoch : LeaderEpochs, status : Status, replicas : Nat,
                 producer : ProducerIdentity \cup {None},
                 group : GroupIdentity \cup {None}]

Empty == [x \in {} |-> x]
\* next_offset of a reservation: the offset after its last record.
EndOf(b) == b.first + b.count
Insert(f, k, v) == [x \in DOMAIN f \cup {k} |-> IF x = k THEN v ELSE f[x]]
Drop(f, S) == [x \in DOMAIN f \ S |-> f[x]]
Least(a, b) == IF a <= b THEN a ELSE b
Greatest(a, b) == IF a >= b THEN a ELSE b
DedupKey(p) == <<p.id, p.epoch, p.seq>>

-----------------------------------------------------------------------------
(***************************************************************************)
(* Cached watermarks.  Each cursor walks the dense index from its key      *)
(* while the next batch starts exactly at the cursor's end and is passable *)
(* for that watermark.                                                     *)
(***************************************************************************)
\* Mutant: an undecided group chunk does not hold the last stable offset back.
StablePassUndecided(bs) == {k \in DOMAIN bs : bs[k].status # "Pending"}

\* Mutant: a completed batch counts as replicated whatever its replica count.
ReplicatedPassWritten(bs, isr) == {k \in DOMAIN bs : bs[k].status # "Pending"}

ContiguousPass(bs) == {k \in DOMAIN bs : bs[k].status # "Pending"}
StablePass(bs) == {k \in DOMAIN bs : bs[k].status \in Outcome}
ReplicatedPass(bs, isr) ==
  {k \in DOMAIN bs : \/ bs[k].status = "Aborted"
                     \/ bs[k].status # "Pending" /\ bs[k].replicas >= isr}

EndAt(bs, from, k) == IF k = from.key THEN from.end ELSE EndOf(bs[k - 1])
CursorAt(bs, from, k) == [key |-> k, end |-> EndAt(bs, from, k)]

\* The walk over pass from cursor `from' ends at key `to'.
Walk(bs, pass, from, to) ==
  /\ \A k \in from.key..(to - 1) : k \in pass /\ bs[k].first = EndAt(bs, from, k)
  /\ to \in pass => bs[to].first # EndAt(bs, from, to)

\* The offset a waiter of the given mode can see up to.
Visible(mode, s, r) == IF mode = "Ordered" THEN s.end ELSE Least(r.end, s.end)

\* Mutant: a waiter whose offset is exactly reached stays parked.
NotifyWaitersOffByOne(s, r) ==
  waiters' = {w \in waiters : w.through >= Visible(w.mode, s, r)}

NotifyWaiters(s, r) ==
  waiters' = {w \in waiters : w.through > Visible(w.mode, s, r)}

\* advance_cached_watermarks, starting at cursors c, s and r, over the index bs
\* whose next key is `next'.
AdvanceWatermarks(bs, next, isr, c, s, r) ==
  /\ \E k \in c.key..next : Walk(bs, ContiguousPass(bs), c, k) /\ contiguous' = CursorAt(bs, c, k)
  /\ \E k \in s.key..next : Walk(bs, StablePass(bs), s, k) /\ stable' = CursorAt(bs, s, k)
  /\ \E k \in r.key..next : Walk(bs, ReplicatedPass(bs, isr), r, k) /\ replicated' = CursorAt(bs, r, k)
  /\ NotifyWaiters(stable', replicated')

AdvanceCachedWatermarks(bs) ==
  AdvanceWatermarks(bs, nextBatch, policy.minIsr, contiguous, stable, replicated)

ResetCachedWatermarks(bs, key, start, isr) ==
  LET base == [key |-> key, end |-> start]
  IN  AdvanceWatermarks(bs, nextBatch, isr, base, base, base)

-----------------------------------------------------------------------------
(***************************************************************************)
(* Reservations.  An append intent carries a producer identity p, an       *)
(* atomic-group identity g, a record count and the leader epoch its        *)
(* admission was granted under, each of p, g and the epoch optional.       *)
(***************************************************************************)
\* Mutant: a new producer epoch restarts its sequence at 0.
NewSequenceRestarts(p) ==
  p # None => p.seq = 0 /\ (p.id \in DOMAIN producers => p.epoch > producers[p.id].epoch)

\* check_producer lets identity p reserve.
NewSequence(p) ==
  p # None =>
    IF p.id \in DOMAIN producers
    THEN /\ p.seq = producers[p.id].next
         /\ p.epoch >= producers[p.id].epoch
         /\ p.epoch = producers[p.id].epoch =>
              DedupKey(p) \notin DOMAIN dedup /\ ~producers[p.id].failed
    ELSE p.seq = 0

\* check_atomic_group lets chunk g reserve.
NewChunk(g) ==
  g # None =>
    /\ g.txn \notin DOMAIN finalizedGroups
    /\ IF g.txn \in DOMAIN atomicGroups
       THEN /\ atomicGroups[g.txn].state = "Unresolved"
            /\ g.chunk = Len(atomicGroups[g.txn].ids)
       ELSE g.chunk = 0

\* The epoch a reservation is placed under.
AdmittedEpoch(e) == IF e = None THEN leaderEpoch ELSE e

\* Mutant: the admitted epoch is not compared with the current one.
EpochAdmittedAlways(e) == TRUE

\* propose_reservation refuses an admission granted under an older epoch.
EpochAdmitted(e) == AdmittedEpoch(e) >= leaderEpoch

\* Placement of batch k: the ring's lanes in turn.
LaneOf(ring, k) == ring[(k % Len(ring)) + 1]

\* The cursor of producer p after a reservation of n records.
AdvanceProducer(ps, p, n) ==
  IF p = None THEN ps
  ELSE Insert(ps, p.id, [epoch |-> p.epoch, next |-> p.seq + n, failed |-> FALSE])

\* Group bookkeeping of a reservation b that carries chunk g.
RegisterChunk(groups, g, b) ==
  IF g = None THEN groups
  ELSE Insert(groups, g.txn,
              [state |-> "Unresolved",
               ids |-> IF g.txn \in DOMAIN groups
                       THEN Append(groups[g.txn].ids, b) ELSE <<b>>])

\* Mutant: a group whose only chunk is rolled back is kept, empty.
RollbackChunkKeepsGroup(groups, g, b) ==
  IF g = None \/ g.txn \notin DOMAIN groups THEN groups
  ELSE [groups EXCEPT ![g.txn].ids = SelectSeq(@, LAMBDA k : k # b)]

\* rollback_atomic_chunk: only the tail chunk of a group can be taken back.
RollbackChunk(groups, g, b) ==
  IF g = None \/ g.txn \notin DOMAIN groups THEN groups
  ELSE LET ids == groups[g.txn].ids
           n == Len(ids)
       IN  IF n = 0 \/ n # g.chunk + 1 \/ ids[n] # b THEN groups
           ELSE IF n = 1 THEN Drop(groups, {g.txn})
           ELSE [groups EXCEPT ![g.txn].ids = SubSeq(ids, 1, n - 1)]

\* reserve: prepare and commit_source in one command.
Reserve(p, g, n, e) ==
  /\ NewSequence(p)
  /\ NewChunk(g)
  /\ EpochAdmitted(e)
  /\ nextOffset + n <= MaxOffset
  /\ nextBatch < MaxBatches
  /\ nextBatch' = nextBatch + 1
  /\ nextOffset' = nextOffset + n
  /\ leaderEpoch' = AdmittedEpoch(e)
  /\ batches' = Insert(batches, nextBatch,
       [first |-> nextOffset, count |-> n,
        lane |-> LaneOf(virtualLanes, nextBatch), ringEpoch |-> ringEpoch,
        leaderEpoch |-> AdmittedEpoch(e), status |-> "Pending", replicas |-> 0,
        producer |-> p, group |-> g])
  /\ producers' = AdvanceProducer(producers, p, n)
  /\ atomicGroups' = RegisterChunk(atomicGroups, g, nextBatch)
  /\ inFlight' = inFlight \cup {nextBatch}
  /\ UNCHANGED <<ringEpoch, virtualLanes, firstKey, logStart, watermarkVars,
                 policy, finalizedGroups, dedup>>

-----------------------------------------------------------------------------
(***************************************************************************)
(* Results of the physical append.                                         *)
(***************************************************************************)
\* Mutant: a chunk of an atomic group commits on its own.
SettledStatusCommits(b) == "Committed"

SettledStatus(b) == IF batches[b].group = None THEN "Committed" ELSE "Unresolved"

\* complete: batch b is durable on r replicas, the leader included.
Complete(b, r) ==
  LET bs == [batches EXCEPT ![b].status = SettledStatus(b),
                            ![b].replicas = Greatest(@, r)]
      p == batches[b].producer
  IN  /\ b \in inFlight
      /\ batches[b].status = "Pending"
      /\ batches' = bs
      /\ AdvanceCachedWatermarks(bs)
      /\ dedup' = IF p = None THEN dedup
                  ELSE Insert(dedup, DedupKey(p),
                              [count |-> batches[b].count, batch |-> b,
                               replicas |-> bs[b].replicas])
      /\ inFlight' = inFlight \ {b}
      /\ UNCHANGED <<sequencerVars, firstKey, logStart, policy, groupVars, producers>>

\* fail marks the producer's cursor, whatever its epoch.
FailProducer(p) ==
  IF p = None \/ p.id \notin DOMAIN producers THEN producers
  ELSE [producers EXCEPT ![p.id].failed = TRUE]

\* fail, when the worker proves that nothing was written.
FailNotWritten(b) ==
  LET bs == [batches EXCEPT ![b].status = "Aborted", ![b].replicas = 0]
  IN  /\ b \in inFlight
      /\ batches[b].status = "Pending"
      /\ producers' = FailProducer(batches[b].producer)
      /\ batches' = bs
      /\ AdvanceCachedWatermarks(bs)
      /\ atomicGroups' = RollbackChunk(atomicGroups, batches[b].group, b)
      /\ inFlight' = inFlight \ {b}
      /\ UNCHANGED <<sequencerVars, firstKey, logStart, policy, finalizedGroups, dedup>>

\* fail, when the batch may be on disk: it stays Pending.
FailAmbiguous(b) ==
  /\ b \in inFlight
  /\ producers' = FailProducer(batches[b].producer)
  /\ inFlight' = inFlight \ {b}
  /\ UNCHANGED <<sequencerVars, firstKey, batches, logStart, watermarkVars,
                 policy, groupVars, dedup>>

\* Mutant: a stored receipt keeps the replica count of its first acknowledgement.
RaiseReceiptsNot(b, r) == dedup

\* The stored receipts of batch b follow its replica count.
RaiseReceipts(b, r) ==
  [k \in DOMAIN dedup |->
     IF dedup[k].batch = b THEN [dedup[k] EXCEPT !.replicas = Greatest(@, r)]
     ELSE dedup[k]]

\* set_durable_replica_count: replication reports r durable copies of batch b.
SetDurableReplicaCount(b, r) ==
  LET bs == [batches EXCEPT ![b].replicas = Greatest(@, r)]
  IN  /\ b \in DOMAIN batches
      /\ batches[b].status \in {"Committed", "Unresolved"}
      /\ batches' = bs
      /\ AdvanceCachedWatermarks(bs)
      /\ dedup' = RaiseReceipts(b, r)
      /\ UNCHANGED <<sequencerVars, firstKey, logStart, policy, groupVars,
                     producers, inFlight>>

-----------------------------------------------------------------------------
(***************************************************************************)
(* Control operations.                                                     *)
(***************************************************************************)
GroupIds(t) == {atomicGroups[t].ids[n] : n \in DOMAIN atomicGroups[t].ids}

\* Mutant: a finalized group may be finalized again, the other way.
FinalizeAgain(t, outcome) ==
  /\ t \in DOMAIN atomicGroups
  /\ \A k \in GroupIds(t) : k \in DOMAIN batches /\ batches[k].status # "Pending"

\* A group may take an outcome when each of its chunks is durable and undecided.
MayFinalize(t, outcome) ==
  /\ t \in DOMAIN atomicGroups
  /\ atomicGroups[t].state = "Unresolved"
  /\ \A k \in GroupIds(t) :
       /\ k \in DOMAIN batches
       /\ batches[k].status = "Unresolved"
       /\ outcome = "Committed" => batches[k].replicas >= policy.minIsr

\* finalize_atomic_group: every chunk takes the outcome at once.
FinalizeAtomicGroup(t, outcome) ==
  LET bs == [k \in DOMAIN batches |->
               IF k \in GroupIds(t) THEN [batches[k] EXCEPT !.status = outcome]
               ELSE batches[k]]
  IN  /\ MayFinalize(t, outcome)
      /\ batches' = bs
      /\ atomicGroups' = [atomicGroups EXCEPT ![t].state = outcome]
      /\ finalizedGroups' = Insert(finalizedGroups, t, outcome)
      /\ AdvanceCachedWatermarks(bs)
      /\ UNCHANGED <<sequencerVars, firstKey, logStart, policy, producerVars, inFlight>>

\* compute_replicated_high_watermark(isr) reaches the last stable offset.
ReplicatedCoversStable(isr) ==
  LET base == [key |-> firstKey, end |-> logStart]
  IN  \E k \in firstKey..nextBatch :
        /\ Walk(batches, ReplicatedPass(batches, isr), base, k)
        /\ EndAt(batches, base, k) >= stable.end

UpdateReplicationPolicy(generation, isr) ==
  /\ generation > policy.generation
  /\ ReplicatedCoversStable(isr)
  /\ policy' = [generation |-> generation, minIsr |-> isr]
  /\ ResetCachedWatermarks(batches, firstKey, logStart, isr)
  /\ UNCHANGED <<sequencerVars, firstKey, batches, logStart, groupVars,
                 producerVars, inFlight>>

\* The first batch that a truncation to offset o keeps.
FirstRetained(o, k) ==
  IF o = stable.end THEN k = nextBatch
  ELSE k \in DOMAIN batches /\ batches[k].first = o

RetainGroups(groups, k) ==
  [t \in {u \in DOMAIN groups : /\ groups[u].ids # << >>
                                /\ groups[u].ids[Len(groups[u].ids)] >= k}
     |-> groups[t]]

\* Mutant: retention is not held to the last stable offset.
MayTruncatePastStable(o, k) ==
  /\ o > logStart
  /\ IF o = nextOffset THEN k = nextBatch
     ELSE k \in DOMAIN batches /\ batches[k].first = o

\* The checks of truncate.
MayTruncate(o, k) ==
  /\ o > logStart
  /\ o <= stable.end
  /\ FirstRetained(o, k)
  /\ (k \in DOMAIN batches /\ batches[k].group # None) => batches[k].group.chunk = 0
  /\ k = nextBatch => nextOffset = o

\* truncate to a new log start o, with first retained batch k.
Truncate(o, k) ==
  LET bs == [j \in k..(nextBatch - 1) |-> batches[j]]
  IN  /\ MayTruncate(o, k)
      /\ logStart' = o
      /\ firstKey' = k
      /\ batches' = bs
      /\ atomicGroups' = RetainGroups(atomicGroups, k)
      /\ ResetCachedWatermarks(bs, k, o, policy.minIsr)
      /\ UNCHANGED <<sequencerVars, policy, finalizedGroups, producerVars, inFlight>>

Reconfigure(epoch, ring) ==
  /\ epoch > ringEpoch
  /\ ringEpoch' = epoch
  /\ virtualLanes' = ring
  /\ UNCHANGED <<leaderEpoch, nextBatch, nextOffset, firstKey, batches, logStart,
                 watermarkVars, policy, groupVars, producerVars, inFlight>>

ObserveLeaderEpoch(epoch) ==
  /\ epoch > leaderEpoch
  /\ leaderEpoch' = epoch
  /\ UNCHANGED <<ringEpoch, virtualLanes, nextBatch, nextOffset, firstKey, batches,
                 logStart, watermarkVars, policy, groupVars, producerVars, inFlight>>

\* wait_until_visible, when it has to park its caller.
WaitUntilVisible(mode, through) ==
  /\ through > Visible(mode, stable, replicated)
  /\ Cardinality(waiters) < MaxWaiters
  /\ waiters' = waiters \cup {[mode |-> mode, through |-> through]}
  /\ UNCHANGED <<sequencerVars, firstKey, batches, logStart, contiguous, stable,
                 replicated, policy, groupVars, producerVars, inFlight>>

-----------------------------------------------------------------------------
\* create_partition: ring epoch 1 over the configured lanes, nothing allocated.
Init ==
  /\ ringEpoch = 1 /\ virtualLanes = InitialRing /\ leaderEpoch = 0
  /\ nextBatch = 0 /\ nextOffset = 0
  /\ firstKey = 0 /\ batches = Empty /\ logStart = 0
  /\ contiguous = [key |-> 0, end |-> 0]
  /\ stable = contiguous /\ replicated = contiguous
  /\ policy \in [generation : {1}, minIsr : 1..ReplicationFactor]
  /\ atomicGroups = Empty /\ finalizedGroups = Empty
  /\ producers = Empty /\ dedup = Empty
  /\ waiters = {} /\ inFlight = {}

\* Requests worth sending: a refused one changes nothing.
ProducerInputs ==
  {None} \cup {p \in [id : Producers, epoch : ProducerEpochs, seq : 0..MaxOffset] : NewSequence(p)}
GroupInputs ==
  {None} \cup {g \in [txn : Txns, chunk : 0..MaxBatches] : NewChunk(g)}

Next ==
  \/ \E p \in ProducerInputs : \E g \in GroupInputs : \E n \in Counts, e \in LeaderEpochs \cup {None} :
       Reserve(p, g, n, e)
  \/ \E b \in inFlight, r \in 1..ReplicationFactor : Complete(b, r)
  \/ \E b \in inFlight : FailNotWritten(b)
  \/ \E b \in inFlight : FailAmbiguous(b)
  \/ \E b \in DOMAIN batches, r \in 1..ReplicationFactor : SetDurableReplicaCount(b, r)
  \/ \E t \in DOMAIN atomicGroups, outcome \in Outcome : FinalizeAtomicGroup(t, outcome)
  \/ \E generation \in 1..MaxGeneration, isr \in 1..ReplicationFactor :
       UpdateReplicationPolicy(generation, isr)
  \/ \E o \in 1..MaxOffset, k \in 0..MaxBatches : Truncate(o, k)
  \/ \E epoch \in 1..MaxRingEpoch, ring \in Rings : Reconfigure(epoch, ring)
  \/ \E epoch \in LeaderEpochs : ObserveLeaderEpoch(epoch)
  \/ \E mode \in Modes, through \in 1..MaxOffset : WaitUntilVisible(mode, through)

Spec == Init /\ [][Next]_partitionVars

\* Mutant: an append call may return without reporting, unless it is the first.
SettleFirst(b) ==
  /\ b = 0
  /\ \/ \E r \in 1..ReplicationFactor : Complete(b, r)
     \/ FailNotWritten(b)
     \/ FailAmbiguous(b)

\* Every append call reports its worker's result to the coordinator, so every
\* outstanding reservation is settled in the end, one way or the other.
Settle(b) ==
  \/ \E r \in 1..ReplicationFactor : Complete(b, r)
  \/ FailNotWritten(b)
  \/ FailAmbiguous(b)
FairSpec == Spec /\ \A b \in 0..(MaxBatches - 1) : WF_partitionVars(Settle(b))

-----------------------------------------------------------------------------
(***************************************************************************)
(* Properties.                                                             *)
(***************************************************************************)
\* The state is well formed: the index is dense from firstKey to the sequencer's
\* next batch ID, and no group is kept without a chunk (PartitionState).
TypeOK ==
  /\ ringEpoch \in Nat /\ virtualLanes \in Seq(Lanes) \ {<< >>}
  /\ leaderEpoch \in LeaderEpochs /\ nextBatch \in Nat /\ nextOffset \in Nat
  /\ firstKey \in 0..nextBatch
  /\ batches \in [firstKey..(nextBatch - 1) -> BatchRuntime]
  /\ logStart \in Nat
  /\ contiguous \in Cursor /\ stable \in Cursor /\ replicated \in Cursor
  /\ policy \in [generation : Nat, minIsr : Nat \ {0}]
  /\ DOMAIN atomicGroups \subseteq Txns
  /\ \A t \in DOMAIN atomicGroups :
       atomicGroups[t] \in [state : Outcome \cup {"Unresolved"}, ids : Seq(Nat) \ {<< >>}]
  /\ DOMAIN finalizedGroups \subseteq Txns
  /\ \A t \in DOMAIN finalizedGroups : finalizedGroups[t] \in Outcome
  /\ DOMAIN producers \subseteq Producers
  /\ \A p \in DOMAIN producers :
       producers[p] \in [epoch : ProducerEpochs, next : Nat, failed : BOOLEAN]
  /\ \A k \in DOMAIN dedup : dedup[k] \in [count : Counts, batch : Nat, replicas : Nat]
  /\ waiters \subseteq [mode : Modes, through : Nat]
  /\ inFlight \subseteq Nat

\* `end' is the offset of the first batch of S, or the end of the log.
Barrier(end, S) ==
  /\ \A k \in S : end <= batches[k].first
  /\ end = nextOffset \/ \E k \in S : batches[k].first = end

\* The cached watermarks, moved step by step by advance_cached_watermarks and
\* restarted by truncation and policy changes, are always exactly what a scan of
\* the index would give: the first batch still being written, the first batch not
\* yet decided, the first batch short of min-in-sync replicas.
CachedWatermarksExact ==
  /\ Barrier(contiguous.end, {k \in DOMAIN batches : batches[k].status = "Pending"})
  /\ Barrier(stable.end,
       {k \in DOMAIN batches : batches[k].status \in {"Pending", "Unresolved"}})
  /\ Barrier(replicated.end,
       {k \in DOMAIN batches :
          \/ batches[k].status = "Pending"
          \/ batches[k].status # "Aborted" /\ batches[k].replicas < policy.minIsr})

\* The result of every append still out can be applied: complete and fail find
\* its reservation Pending in the index, whatever retention, group outcomes and
\* policy changes ran meanwhile (mark_batch never reports corrupt state).
OutstandingSettles ==
  \A b \in inFlight : b \in DOMAIN batches /\ batches[b].status = "Pending"

\* A group's chunks become readable together: once one is committed its whole
\* group is, and the chunks outside it were rolled back before
\* (finalize_atomic_group, rollback_atomic_chunk).
GroupAllOrNothing ==
  \A t \in Txns :
    LET chunks == {k \in DOMAIN batches : batches[k].group # None /\ batches[k].group.txn = t}
    IN  (\E k \in chunks : batches[k].status = "Committed") =>
          /\ t \in DOMAIN finalizedGroups /\ finalizedGroups[t] = "Committed"
          /\ t \in DOMAIN atomicGroups
          /\ \A k \in chunks : batches[k].status =
               IF k \in GroupIds(t) THEN "Committed" ELSE "Aborted"

\* One producer's batches keep its order and never cover a sequence number twice,
\* over retries, failures and new epochs (check_producer, advance_producer).
ProducerOrder ==
  \A j, k \in DOMAIN batches :
    (j < k /\ batches[j].producer # None /\ batches[k].producer # None
       /\ batches[j].producer.id = batches[k].producer.id) =>
      /\ batches[j].producer.epoch <= batches[k].producer.epoch
      /\ batches[j].producer.seq + batches[j].count <= batches[k].producer.seq

\* A stored receipt names the batch its identity reserved, and reports as many
\* durable replicas as the index does (complete, set_durable_replica_count).
ReceiptsAgree ==
  \A d \in DOMAIN dedup :
    dedup[d].batch \in DOMAIN batches =>
      LET b == batches[dedup[d].batch]
      IN  /\ b.producer # None /\ DedupKey(b.producer) = d
          /\ b.count = dedup[d].count
          /\ b.status # "Pending"
          /\ b.replicas = dedup[d].replicas

\* Nobody stays parked on an offset that is already visible (notify_waiters).
NoLostWakeup ==
  \A w \in waiters : w.through > Visible(w.mode, stable, replicated)

\* Placement is fenced: batches carry the leader epochs and ring epochs in the
\* order they were observed, never one below an earlier batch's or above the
\* sequencer's (propose_reservation, reconfigure, observe_leader_epoch).
PlacementFenced ==
  \A k \in DOMAIN batches :
    /\ batches[k].leaderEpoch <= leaderEpoch /\ batches[k].ringEpoch <= ringEpoch
    /\ \A j \in DOMAIN batches : j < k =>
         /\ batches[j].leaderEpoch <= batches[k].leaderEpoch
         /\ batches[j].ringEpoch <= batches[k].ringEpoch
         /\ EndOf(batches[j]) <= batches[k].first

\* What was readable stays what it was: the last stable offset and the log start
\* never move back, and a batch below the last stable offset keeps its placement,
\* its records and its outcome until retention drops it.
StableStep ==
  /\ stable'.end >= stable.end
  /\ logStart' >= logStart
  /\ \A k \in DOMAIN batches : EndOf(batches[k]) <= stable.end =>
       \/ k \in DOMAIN batches' /\ [batches'[k] EXCEPT !.replicas = batches[k].replicas] = batches[k]
       \/ k \notin DOMAIN batches' /\ EndOf(batches[k]) <= logStart'

\* No handler of the coordinator rewrites readable history: every step is a
\* StableStep.
StableHistoryFinal == [][StableStep]_partitionVars

\* What may hold a parked caller back for good: its offset is not allocated, or a
\* batch below it has an unknown result, an undecided group, or too few replicas.
HeldBack(w) ==
  \/ w.through > nextOffset
  \/ \E k \in DOMAIN batches :
       /\ batches[k].first < w.through
       /\ \/ batches[k].status = "Pending" /\ k \notin inFlight
          \/ batches[k].status = "Unresolved"
          \/ /\ w.mode = "Replicated"
             /\ batches[k].status = "Committed" /\ batches[k].replicas < policy.minIsr

\* A caller of wait_until_visible is answered once nothing holds it back, in
\* whatever order the appends below its offset settle.
WaitersAnswered ==
  \A w \in [mode : Modes, through : 1..MaxOffset] :
    []<>(w \notin waiters \/ HeldBack(w))

\* What the index, the producers' cursors and the stored receipts say of the
\* appends agrees, whatever mixture of retries, failures, new epochs, ring
\* changes and retention led here, and every result still out can be applied.
AppendsConsistent == ProducerOrder /\ ReceiptsAgree /\ PlacementFenced /\ OutstandingSettles

\* Retention keeps or drops a group as a whole ("retention cannot split an atomic
\* group", truncate): every chunk a committed group still lists is in the index.
RetentionKeepsGroupsWhole ==
  \A t \in DOMAIN atomicGroups :
    atomicGroups[t].state = "Committed" => GroupIds(t) \subseteq DOMAIN batches

=============================================================================
