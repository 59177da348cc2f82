--------------------------- MODULE DurablePartition ---------------------------
(***************************************************************************)
(* A partition with what it keeps on disk: the extents its lanes hold, the *)
(* control journal, restarts, and recovery of the coordinator's state from *)
(* the two.  The actions are those of Partition, each with what it needs   *)
(* from the disk or writes to it.                                          *)
(*                                                                         *)
(* Abstractions.                                                           *)
(*  - A lane is the sequence of extents in the order they were written;    *)
(*    synced[l] of them are on stable storage.  Packs, frames and garbage  *)
(*    collection are left out: recovery ignores the extents that retention *)
(*    dropped, collected or not.                                           *)
(*  - The journal is the sequence of its events, of one partition.         *)
(*  - A crash and the recovery after it are one step: recovery only reads, *)
(*    apart from cutting off torn tails.                                   *)
(***************************************************************************)
EXTENDS Partition, FiniteSetsExt

CONSTANTS
  MaxRestarts,         \* bound on restarts
  MaxJournalFailures,  \* bound on journal appends whose sync fails
  MaxGapBatches,       \* MAX_RECOVERED_GAP_BATCHES
  ProcessCrashes,      \* may the process die while the machine keeps running?
  PowerLosses          \* may the machine lose what is not synced?

ASSUME DurableAssumption ==
  /\ MaxRestarts \in Nat /\ MaxJournalFailures \in Nat /\ MaxGapBatches \in Nat
  /\ ProcessCrashes \in BOOLEAN /\ PowerLosses \in BOOLEAN

VARIABLES
  lanes, synced,             \* extents of each lane, and how many are synced
  journal, journalSynced,    \* control journal, and how much of it is synced
  acked,                     \* history: the extents acknowledged to a client
  refused,                   \* recovery refused to open the partition
  restarts, journalFailures  \* counters for the bounds

diskVars == <<lanes, synced, journal, journalSynced>>
boundVars == <<refused, restarts, journalFailures>>
durableVars == <<partitionVars, diskVars, acked, boundVars>>

-----------------------------------------------------------------------------
(***************************************************************************)
(* Extents and journal events.                                             *)
(***************************************************************************)
Extent(b) == [id |-> b, first |-> batches[b].first, count |-> batches[b].count,
              lane |-> batches[b].lane, ringEpoch |-> batches[b].ringEpoch,
              leaderEpoch |-> batches[b].leaderEpoch,
              producer |-> batches[b].producer, group |-> batches[b].group]

\* The extents among the first n that lane l holds.
Held(ls, l, n) == {ls[l][i] : i \in 1..n}
OnLane(b) == Extent(b) \in Held(lanes, batches[b].lane, Len(lanes[batches[b].lane]))

\* Mutant: an append is acknowledged once it is written.
DurableWritten(b) == OnLane(b)

Durable(b) == Extent(b) \in Held(lanes, batches[b].lane, synced[batches[b].lane])

Created(p) == [kind |-> "Create", epoch |-> 1, ring |-> InitialRing, policy |-> p]
Configured(epoch, ring) == [kind |-> "Configure", epoch |-> epoch, ring |-> ring]
PolicyUpdated(generation, isr) ==
  [kind |-> "Policy", expected |-> policy.generation,
   policy |-> [generation |-> generation, minIsr |-> isr]]
Truncated(o, k) == [kind |-> "Truncate", logStart |-> o, batch |-> k]
Finalized(t, outcome) == [kind |-> "Group", txn |-> t, outcome |-> outcome]

\* journal.append(event, true) succeeds: the whole journal is synced.
Journal(event) ==
  /\ ~refused
  /\ journal' = Append(journal, event)
  /\ journalSynced' = Len(journal')
  /\ UNCHANGED <<lanes, synced>>

\* journal.append writes its frame and then fails to sync it: the handler
\* returns the error and changes nothing, and the frame stays.
JournalFails(event) ==
  /\ ~refused
  /\ journalFailures < MaxJournalFailures
  /\ journalFailures' = journalFailures + 1
  /\ journal' = Append(journal, event)
  /\ UNCHANGED <<partitionVars, lanes, synced, journalSynced, acked, refused, restarts>>

-----------------------------------------------------------------------------
(***************************************************************************)
(* Recovery, as a function of the journal J that survived and the set E of *)
(* extents on the lanes.                                                   *)
(***************************************************************************)
Indexes(J, kinds) == {i \in DOMAIN J : J[i].kind \in kinds}
LastOf(J, kinds) == J[Max(Indexes(J, kinds))]

\* Mutant: placement is checked against the current ring.
RingAtLatest(J, epoch) == LastOf(J, {"Create", "Configure"}).ring

RingAt(J, epoch) ==
  LET i == CHOOSE i \in Indexes(J, {"Create", "Configure"}) : J[i].epoch = epoch
  IN  J[i].ring


\* The last retention checkpoint: the log start, and the batch it begins with.
Floor(J) == IF Indexes(J, {"Truncate"}) = {} THEN Truncated(0, 0) ELSE LastOf(J, {"Truncate"})

\* Mutant: the markers of finalized groups are not read back.
OutcomesForgotten(J) == Empty

\* The outcomes of the groups that have a marker.
Outcomes(J) ==
  LET marked == Indexes(J, {"Group"})
  IN  [t \in {J[i].txn : i \in marked} |->
         J[CHOOSE i \in marked : J[i].txn = t].outcome]

\* The reducer accepts the journal's events.
JournalAccepted(J) ==
  /\ \A i, j \in DOMAIN J : i < j =>
       /\ J[i].kind \in {"Create", "Configure"} /\ J[j].kind = "Configure" =>
            J[i].epoch < J[j].epoch
       /\ J[i].kind = "Truncate" /\ J[j].kind = "Truncate" => J[i].logStart <= J[j].logStart
       /\ (J[i].kind = "Group" /\ J[j].kind = "Group" /\ J[i].txn = J[j].txn) =>
            J[i].outcome = J[j].outcome
  /\ \A j \in Indexes(J, {"Policy"}) :
       LET current == J[Max({i \in Indexes(J, {"Create", "Policy"}) : i < j})].policy
       IN  current # J[j].policy => current.generation = J[j].expected

\* The extents that recovery reads: those that retention has not dropped.
Retained(J, E) == LET floor == Floor(J).logStart IN {x \in E : EndOf(x) > floor}

\* Where the batches before extent ID i end: the extent before it, or the floor.
Before(J, R, i) ==
  LET lower == {x \in R : x.id < i}
  IN  IF lower = {} THEN [id |-> Floor(J).batch, end |-> Floor(J).logStart]
      ELSE LET x == CHOOSE x \in lower : \A y \in lower : y.id <= x.id
           IN  [id |-> x.id + 1, end |-> EndOf(x)]

\* Mutant: a gap needs more records than batches.
GapAcceptedOffByOne(J, R, x) ==
  LET p == Before(J, R, x.id)
  IN  /\ x.id >= p.id
      /\ IF x.id = p.id THEN x.first = p.end ELSE x.first - p.end > x.id - p.id

\* append_recovered_aborts accepts the gap before extent x.
GapAccepted(J, R, x) ==
  LET p == Before(J, R, x.id)
      missingBatches == x.id - p.id
      missingRecords == x.first - p.end
  IN  /\ x.id >= p.id /\ x.first >= p.end
      /\ IF missingBatches = 0 THEN missingRecords = 0
         ELSE missingBatches <= MaxGapBatches /\ missingRecords >= missingBatches

ChunksOf(R, t) == {x \in R : x.group # None /\ x.group.txn = t}

\* register_atomic_chunk meets the chunks of every group in order, from chunk 0.
ChunksAccepted(R) ==
  \A t \in Txns : \A x \in ChunksOf(R, t) :
    x.group.chunk = Cardinality({y \in ChunksOf(R, t) : y.id < x.id})

ExtentsAccepted(J, R) ==
  /\ \A x, y \in R : x # y /\ x.first <= y.first => x.id < y.id /\ EndOf(x) <= y.first
  /\ \A x \in R :
       /\ GapAccepted(J, R, x)
       /\ \E i \in Indexes(J, {"Create", "Configure"}) : J[i].epoch = x.ringEpoch
       /\ LaneOf(RingAt(J, x.ringEpoch), x.id) = x.lane
  /\ ChunksAccepted(R)

RecoveryAccepted(J, R) == JournalAccepted(J) /\ ExtentsAccepted(J, R)

-----------------------------------------------------------------------------
\* Mutant: every missing batch is taken to have had one record.
RecoveredAbortSingle(J, R, k, x) ==
  [first |-> Before(J, R, k).end + (k - Before(J, R, k).id), count |-> 1,
   lane |-> LaneOf(RingAt(J, x.ringEpoch), k), ringEpoch |-> x.ringEpoch,
   leaderEpoch |-> 0, status |-> "Aborted", replicas |-> 0,
   producer |-> None, group |-> None]

\* append_recovered_aborts: the aborted batch k of the gap before extent x; the
\* missing records are dealt evenly, the first batches taking one more.
RecoveredAbort(J, R, k, x) ==
  LET p == Before(J, R, k)
      base == (x.first - p.end) \div (x.id - p.id)
      remainder == (x.first - p.end) % (x.id - p.id)
      index == k - p.id
  IN  [first |-> p.end + index * base + Least(index, remainder),
       count |-> base + (IF index < remainder THEN 1 ELSE 0),
       lane |-> LaneOf(RingAt(J, x.ringEpoch), k), ringEpoch |-> x.ringEpoch,
       leaderEpoch |-> 0, status |-> "Aborted", replicas |-> 0,
       producer |-> None, group |-> None]

\* Mutant: a durable chunk counts as committed unless its group was aborted.
RecoveredStatusCommitted(J, x) ==
  IF x.group # None /\ x.group.txn \in DOMAIN Outcomes(J) THEN Outcomes(J)[x.group.txn]
  ELSE "Committed"

RecoveredStatus(J, x) ==
  IF x.group = None THEN "Committed"
  ELSE IF x.group.txn \in DOMAIN Outcomes(J) THEN Outcomes(J)[x.group.txn] ELSE "Unresolved"

\* The batch of an extent: recovery counts the local copy, and no other.
RecoveredBatch(J, x) ==
  [first |-> x.first, count |-> x.count, lane |-> x.lane, ringEpoch |-> x.ringEpoch,
   leaderEpoch |-> x.leaderEpoch, status |-> RecoveredStatus(J, x),
   replicas |-> IF RecoveredStatus(J, x) = "Aborted" THEN 0 ELSE 1,
   producer |-> x.producer, group |-> x.group]

RecoveredEnd(J, R) == Before(J, R, IF R = {} THEN 0 ELSE Max({x.id : x \in R}) + 1)

RecoveredBatches(J, R) ==
  [k \in Floor(J).batch..(RecoveredEnd(J, R).id - 1) |->
     LET x == CHOOSE x \in R : x.id >= k /\ \A y \in R : y.id >= k => x.id <= y.id
     IN  IF x.id = k THEN RecoveredBatch(J, x) ELSE RecoveredAbort(J, R, k, x)]

RecoveredGroups(J, R) ==
  [t \in {u \in Txns : ChunksOf(R, u) # {}} |->
     [state |-> IF t \in DOMAIN Outcomes(J) THEN Outcomes(J)[t] ELSE "Unresolved",
      ids |-> [n \in 1..Cardinality(ChunksOf(R, t)) |->
                 (CHOOSE x \in ChunksOf(R, t) : x.group.chunk = n - 1).id]]]

ProducedBy(R, id) == {x \in R : x.producer # None /\ x.producer.id = id}

\* restore_producer: the highest epoch seen, and the furthest sequence in it.
RecoveredProducers(R) ==
  [id \in {u \in Producers : ProducedBy(R, u) # {}} |->
     LET epoch == Max({x.producer.epoch : x \in ProducedBy(R, id)})
     IN  [epoch |-> epoch, failed |-> FALSE,
          next |-> Max({x.producer.seq + x.count :
                          x \in {y \in ProducedBy(R, id) : y.producer.epoch = epoch}})]]

\* Mutant: only the last receipt of a producer is restored.
RecoveredDedupLast(R) ==
  LET last == {x \in R : x.producer # None /\ \A y \in ProducedBy(R, x.producer.id) : y.id <= x.id}
  IN  [d \in {DedupKey(x.producer) : x \in last} |->
         LET x == CHOOSE x \in last : DedupKey(x.producer) = d
         IN  [count |-> x.count, batch |-> x.id, replicas |-> 1]]

RecoveredDedup(R) ==
  [d \in {DedupKey(x.producer) : x \in {y \in R : y.producer # None}} |->
     LET x == CHOOSE x \in R : x.producer # None /\ DedupKey(x.producer) = d
     IN  [count |-> x.count, batch |-> x.id, replicas |-> 1]]

-----------------------------------------------------------------------------
(***************************************************************************)
(* The coordinator's commands, over the disk.                              *)
(***************************************************************************)
\* A step of the open engine that reads and writes no file.
InMemory == ~refused /\ UNCHANGED <<diskVars, acked, boundVars>>

\* The worker of b's lane writes its extent.
WriteExtent(b) ==
  /\ ~refused
  /\ b \in inFlight
  /\ ~OnLane(b)
  /\ lanes' = [lanes EXCEPT ![batches[b].lane] = Append(@, Extent(b))]
  /\ UNCHANGED <<partitionVars, synced, journal, journalSynced, acked, boundVars>>

\* The sync worker of lane l reaches the end of what is written.
SyncLane(l) ==
  /\ ~refused
  /\ synced[l] < Len(lanes[l])
  /\ synced' = [synced EXCEPT ![l] = Len(lanes[l])]
  /\ UNCHANGED <<partitionVars, lanes, journal, journalSynced, acked, boundVars>>

\* append_inner reports a durable extent to the coordinator and to its client.
DurableComplete(b, r) ==
  /\ ~refused
  /\ Complete(b, r)
  /\ Durable(b)
  /\ acked' = acked \cup {Extent(b)}
  /\ UNCHANGED <<diskVars, boundVars>>

\* Only an append that was refused before its write is definitely not written.
RefusedAppend(b) == FailNotWritten(b) /\ ~OnLane(b) /\ InMemory

JournaledFinalize(t, outcome) ==
  /\ FinalizeAtomicGroup(t, outcome)
  /\ Journal(Finalized(t, outcome))
  /\ UNCHANGED <<acked, boundVars>>
JournaledPolicy(generation, isr) ==
  /\ UpdateReplicationPolicy(generation, isr)
  /\ Journal(PolicyUpdated(generation, isr))
  /\ UNCHANGED <<acked, boundVars>>
JournaledTruncate(o, k) ==
  /\ Truncate(o, k)
  /\ Journal(Truncated(o, k))
  /\ UNCHANGED <<acked, boundVars>>
JournaledReconfigure(epoch, ring) ==
  /\ Reconfigure(epoch, ring)
  /\ Journal(Configured(epoch, ring))
  /\ UNCHANGED <<acked, boundVars>>

\* A journalled command that passed its checks and could not sync its event.
CommandFails ==
  \/ \E t \in DOMAIN atomicGroups, outcome \in Outcome :
       MayFinalize(t, outcome) /\ JournalFails(Finalized(t, outcome))
  \/ \E generation \in 1..MaxGeneration, isr \in 1..ReplicationFactor :
       /\ generation > policy.generation /\ ReplicatedCoversStable(isr)
       /\ JournalFails(PolicyUpdated(generation, isr))
  \/ \E o \in 1..MaxOffset, k \in 0..MaxBatches :
       MayTruncate(o, k) /\ JournalFails(Truncated(o, k))
  \/ \E epoch \in 1..MaxRingEpoch, ring \in Rings :
       epoch > ringEpoch /\ JournalFails(Configured(epoch, ring))

-----------------------------------------------------------------------------
(***************************************************************************)
(* Restarts.                                                               *)
(***************************************************************************)
\* Mutant: the sequencer skips a batch ID.
SequencerSkips(J, R) == [id |-> RecoveredEnd(J, R).id + 1, end |-> RecoveredEnd(J, R).end]

\* Where the sequencer continues.
SequencerAt(J, R) == RecoveredEnd(J, R)

\* Mutant: the first retained batch decides the leader epoch.
RecoveredLeaderEpochFirst(bs) == IF DOMAIN bs = {} THEN 0 ELSE bs[Min(DOMAIN bs)].leaderEpoch

\* entries_leader_epoch
RecoveredLeaderEpoch(bs) == IF DOMAIN bs = {} THEN 0 ELSE bs[Max(DOMAIN bs)].leaderEpoch

\* recover_partition_states: the coordinator's state from journal J and the
\* retained extents R.
RecoverState(J, R) ==
  /\ ringEpoch' = LastOf(J, {"Create", "Configure"}).epoch
  /\ virtualLanes' = LastOf(J, {"Create", "Configure"}).ring
  /\ firstKey' = Floor(J).batch
  /\ logStart' = Floor(J).logStart
  /\ nextBatch' = SequencerAt(J, R).id
  /\ nextOffset' = SequencerAt(J, R).end
  /\ batches' = RecoveredBatches(J, R)
  /\ leaderEpoch' = RecoveredLeaderEpoch(batches')
  /\ policy' = LastOf(J, {"Create", "Policy"}).policy
  /\ atomicGroups' = RecoveredGroups(J, R)
  /\ finalizedGroups' = Outcomes(J)
  /\ producers' = RecoveredProducers(R)
  /\ dedup' = RecoveredDedup(R)
  /\ inFlight' = {}
  /\ waiters' = {}
  /\ LET base == [key |-> firstKey', end |-> logStart']
         To(pass, cursor) ==
           \E k \in firstKey'..nextBatch' :
             Walk(batches', pass, base, k) /\ cursor = CursorAt(batches', base, k)
     IN  /\ To(ContiguousPass(batches'), contiguous')
         /\ To(StablePass(batches'), stable')
         /\ To(ReplicatedPass(batches', policy'.minIsr), replicated')

\* The engine reopens with journal J and lanes ls.
Reopen(J, ls) ==
  LET E == UNION {Held(ls, l, Len(ls[l])) : l \in Lanes}
  IN  /\ ~refused
      /\ restarts < MaxRestarts
      /\ restarts' = restarts + 1
      /\ lanes' = ls
      /\ journal' = J
      /\ \E R \in {Retained(J, E)} :
           IF RecoveryAccepted(J, R)
           THEN RecoverState(J, R) /\ UNCHANGED refused
           ELSE refused' = TRUE /\ UNCHANGED partitionVars
      /\ UNCHANGED <<acked, journalFailures>>

\* The process dies or is stopped: the files keep all that was written, and what
\* was not synced still is not.
ProcessCrash ==
  /\ ProcessCrashes
  /\ Reopen(journal, lanes)
  /\ UNCHANGED <<synced, journalSynced>>

\* scan_and_repair keeps the frames before the first torn one.
JournalLeft(n) == SubSeq(journal, 1, n)

\* scan_pack does the same for the frames of each lane.
LanesLeft(left) == [l \in Lanes |-> SubSeq(lanes[l], 1, left[l])]

\* The machine dies: of each file, what was synced and some of the rest is left.
PowerLoss ==
  /\ PowerLosses
  /\ \E left \in {f \in [Lanes -> 0..MaxBatches] : \A l \in Lanes : f[l] \in synced[l]..Len(lanes[l])},
        n \in journalSynced..Len(journal) :
       /\ Reopen(JournalLeft(n), LanesLeft(left))
       /\ synced' = left
       /\ journalSynced' = n

-----------------------------------------------------------------------------
DurableInit ==
  /\ Init
  /\ lanes = [l \in Lanes |-> << >>]
  /\ synced = [l \in Lanes |-> 0]
  /\ journal = <<Created(policy)>> /\ journalSynced = 1
  /\ acked = {}
  /\ refused = FALSE /\ restarts = 0 /\ journalFailures = 0

DurableNext ==
  \/ \E p \in ProducerInputs : \E g \in GroupInputs : \E n \in Counts, e \in LeaderEpochs \cup {None} :
       Reserve(p, g, n, e) /\ InMemory
  \/ \E b \in inFlight : WriteExtent(b)
  \/ \E l \in Lanes : SyncLane(l)
  \/ \E b \in inFlight, r \in 1..ReplicationFactor : DurableComplete(b, r)
  \/ \E b \in inFlight : RefusedAppend(b)
  \/ \E b \in inFlight : FailAmbiguous(b) /\ InMemory
  \/ \E b \in DOMAIN batches, r \in 1..ReplicationFactor :
       SetDurableReplicaCount(b, r) /\ InMemory
  \/ \E t \in DOMAIN atomicGroups, outcome \in Outcome : JournaledFinalize(t, outcome)
  \/ \E generation \in 1..MaxGeneration, isr \in 1..ReplicationFactor :
       JournaledPolicy(generation, isr)
  \/ \E o \in 1..MaxOffset, k \in 0..MaxBatches : JournaledTruncate(o, k)
  \/ \E epoch \in 1..MaxRingEpoch, ring \in Rings : JournaledReconfigure(epoch, ring)
  \/ \E epoch \in LeaderEpochs : ObserveLeaderEpoch(epoch) /\ InMemory
  \/ CommandFails
  \/ ProcessCrash
  \/ PowerLoss

DurableSpec == DurableInit /\ [][DurableNext]_durableVars

-----------------------------------------------------------------------------
(***************************************************************************)
(* Properties.                                                             *)
(***************************************************************************)
\* The disk is well formed, and the coordinator's state stays so when it is
\* rebuilt from it (recover_partition_states).
DurableTypeOK ==
  /\ TypeOK
  /\ DOMAIN lanes = Lanes
  /\ \A l \in Lanes : synced[l] \in 0..Len(lanes[l])
  /\ journalSynced \in 1..Len(journal)
  /\ ~refused => \A k \in DOMAIN batches :
       batches[k].status \in {"Committed", "Unresolved"} => OnLane(k)

\* An acknowledged append keeps its offsets, its identity and its place until
\* retention drops it, through any number of restarts; it is never found aborted
\* unless its group was.
AckedSurvives ==
  \A x \in acked : EndOf(x) > logStart =>
    /\ x.id \in DOMAIN batches
    /\ Extent(x.id) = x
    /\ batches[x.id].status # "Pending"
    /\ batches[x.id].status = "Aborted" =>
         x.group # None /\ x.group.txn \in DOMAIN finalizedGroups
                        /\ finalizedGroups[x.group.txn] = "Aborted"

\* A retry of an acknowledged append that is still retained finds its receipt,
\* through any number of restarts (complete, restore_producer).
ReceiptsSurvive ==
  \A x \in acked : (x.producer # None /\ EndOf(x) > logStart) =>
    /\ DedupKey(x.producer) \in DOMAIN dedup
    /\ dedup[DedupKey(x.producer)].batch = x.id

\* A restarted coordinator is fenced at least as far as what it acknowledged and
\* retains: no reservation is placed under an older leader or ring epoch than an
\* acknowledged batch before it (entries_leader_epoch, propose_reservation).
AckedFenced ==
  \A x \in acked : EndOf(x) > logStart =>
    /\ x.leaderEpoch <= leaderEpoch /\ x.ringEpoch <= ringEpoch
    /\ \A k \in DOMAIN batches : (k > x.id /\ batches[k].status # "Aborted") =>
         x.leaderEpoch <= batches[k].leaderEpoch /\ x.ringEpoch <= batches[k].ringEpoch

\* What an acknowledgement promised holds through any number of restarts: the
\* batch, its receipt for a retry, and the fencing of what follows it (complete,
\* recover_partition_states).
AcksSurvive == AckedSurvives /\ ReceiptsSurvive /\ AckedFenced

\* What a consumer could read it can read again: a committed batch below the last
\* stable offset that is synced stays one, where it was, until retention drops it;
\* the log start never moves back; a group's outcome is final.  Restarts included.
\* (Only a batch that recovery read back after a process crash is readable and not
\* yet synced: open does not sync what it scanned.)
ReadableStep ==
  /\ logStart' >= logStart
  /\ \A k \in DOMAIN batches :
       (batches[k].status = "Committed" /\ EndOf(batches[k]) <= stable.end /\ Durable(k)) =>
         \/ /\ k \in DOMAIN batches' /\ batches'[k].status = "Committed"
            /\ batches'[k].first = batches[k].first /\ batches'[k].count = batches[k].count
            /\ EndOf(batches[k]) <= stable'.end
         \/ EndOf(batches[k]) <= logStart'
  /\ \A t \in DOMAIN finalizedGroups :
       t \in DOMAIN finalizedGroups' /\ finalizedGroups'[t] = finalizedGroups[t]


\* The state that recovery rebuilds is one the running coordinator could be in:
\* well formed, with exact watermarks and whole groups, and it stays so under the
\* commands that follow (recover_partition_states, advance_cached_watermarks).
RecoveredConsistent == DurableTypeOK /\ CachedWatermarksExact /\ GroupAllOrNothing

\* The engine opens what it wrote: recovery never refuses.
RecoveryOpens == ~refused

\* A chunk is on disk and an earlier one of its group is not.
ChunkMissing ==
  \E l \in Lanes : \E i \in DOMAIN lanes[l] :
    LET x == lanes[l][i]
    IN  /\ x.group # None /\ EndOf(x) > Floor(journal).logStart
        /\ \E c \in 0..(x.group.chunk - 1) : \A m \in Lanes : \A j \in DOMAIN lanes[m] :
             LET y == lanes[m][j]
             IN  ~(y.group = [txn |-> x.group.txn, chunk |-> c]
                     /\ EndOf(y) > Floor(journal).logStart)

\* Recovery refuses for two reasons only: a group's chunk was lost before a later
\* one (register_atomic_chunk), or a journal append failed after it wrote its
\* frame and the command was sent again, with another outcome or the same epoch
\* (the checks of the journal's replay).
RefusalExplained ==
  refused => ChunkMissing \/ (journalFailures > 0 /\ ~JournalAccepted(journal))

=============================================================================
