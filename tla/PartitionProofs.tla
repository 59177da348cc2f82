--------------------------- MODULE PartitionProofs --------------------------
(***************************************************************************)
(* Proofs about Partition, for every value of its constants: the remaining *)
(* actions keep the invariant of PartitionInvariant, and the theorems.     *)
(*                                                                         *)
(* The last part is about appends: index, cursors and receipts agree       *)
(* (AppendsConsistent).  That is not inductive: the order of a producer's  *)
(* batches rests on the producer's cursor being past every batch it        *)
(* reserved, and receipts on none naming a batch that is not reserved yet  *)
(* (AppendInv).                                                            *)
(***************************************************************************)
EXTENDS PartitionInvariant

\* Retention drops whole batches below the last stable offset.
LEMMA TruncateInv ==
  ASSUME IndInv, NEW o \in 1..MaxOffset, NEW k \in 0..MaxBatches, Truncate(o, k)
  PROVE  IndInv' /\ StableStep
<1>1. /\ UNCHANGED <<ringEpoch, virtualLanes, leaderEpoch, nextBatch, nextOffset,
                     policy, finalizedGroups, producers, dedup, inFlight>>
      /\ MayTruncate(o, k)
      /\ logStart' = o /\ firstKey' = k
      /\ batches' = [j \in k..(nextBatch - 1) |-> batches[j]]
      /\ atomicGroups' = RetainGroups(atomicGroups, k)
      /\ ResetCachedWatermarks(batches', k, o, policy.minIsr)
  BY DEF Truncate, sequencerVars, producerVars
<1>2. /\ k \in firstKey..nextBatch /\ k \in Nat /\ o \in Nat /\ policy.minIsr \in Nat
      /\ o = StartIn(batches, nextBatch, nextOffset, k)
      /\ o > logStart /\ o <= stable.end
  <2>1. k \in Nat /\ o \in Nat /\ policy.minIsr \in Nat /\ o > logStart /\ o <= stable.end
    BY <1>1, PartitionAssumption DEF MayTruncate, IndInv, TypeOK
  <2>2. CASE o = stable.end
    BY <2>2, <1>1, <2>1, TypeFacts DEF MayTruncate, FirstRetained, StartIn
  <2>3. CASE o # stable.end
    <3>1. k \in DOMAIN batches /\ batches[k].first = o
      BY <2>3, <1>1 DEF MayTruncate, FirstRetained
    <3> QED BY <2>1, <3>1, TypeFacts DEF StartIn
  <2> QED BY <2>2, <2>3
<1>3. /\ batches' \in [k..(nextBatch - 1) -> BatchRuntime]
      /\ \A j \in k..(nextBatch - 1) : batches'[j] = batches[j] /\ j \in DOMAIN batches
  BY SMTT(100), <1>1, <1>2, TypeFacts
<1>4. LayoutOf(batches', k, nextBatch, nextOffset, o)
  <2>1. \A j \in k..nextBatch :
          /\ j \in firstKey..nextBatch
          /\ StartIn(batches', nextBatch, nextOffset, j) = StartIn(batches, nextBatch, nextOffset, j)
    BY SMTT(100), <1>2, <1>3, TypeFacts DEF StartIn
  <2>2. \A j \in k..(nextBatch - 1) :
          EndOf(batches'[j]) = StartIn(batches', nextBatch, nextOffset, j + 1)
    <3> TAKE j \in k..(nextBatch - 1)
    <3>1. j + 1 \in k..nextBatch /\ j \in firstKey..(nextBatch - 1)
      BY <1>2, TypeFacts
    <3>2. EndOf(batches[j]) = StartIn(batches, nextBatch, nextOffset, j + 1)
      BY <3>1 DEF IndInv, Layout, LayoutOf
    <3> QED BY <3>1, <3>2, <2>1, <1>3
  <2>3. \A i, j \in k..nextBatch : i < j =>
          StartIn(batches', nextBatch, nextOffset, i) < StartIn(batches', nextBatch, nextOffset, j)
    BY <2>1 DEF IndInv, Layout, LayoutOf
  <2>4. StartIn(batches', nextBatch, nextOffset, k) = o
    BY <1>2, <2>1
  <2> QED BY <2>2, <2>3, <2>4 DEF LayoutOf
<1>5. /\ Layout' /\ CursorsExact' /\ NoLostWakeup'
      /\ waiters' \subseteq waiters
      /\ contiguous' \in Cursor /\ stable' \in Cursor /\ replicated' \in Cursor
  BY SMTT(100), <1>1, <1>2, <1>3, <1>4, ResetStep
<1>6. TypeOK'
  <2>1. waiters' \subseteq [mode : Modes, through : Nat]
    BY SMTT(100), <1>5 DEF IndInv, TypeOK
  <2>2. /\ DOMAIN atomicGroups' \subseteq Txns
        /\ \A t \in DOMAIN atomicGroups' : atomicGroups'[t] \in
             [state : Outcome \cup {"Unresolved"}, ids : Seq(Nat) \ {<< >>}]
    BY <1>1 DEF RetainGroups, IndInv, TypeOK
  <2>3. firstKey' \in 0..nextBatch' /\ batches' \in [firstKey'..(nextBatch' - 1) -> BatchRuntime]
    BY <1>1, <1>2, <1>3
  <2> QED BY ZenonT(100), <1>1, <1>2, <1>5, <2>1, <2>2, <2>3 DEF IndInv, TypeOK
<1>7. stable'.end >= stable.end
  BY <1>1, <1>2, <1>3, <1>5, <1>6, ResetKeepsStable
<1>8. \A j \in DOMAIN batches : j < k => EndOf(batches[j]) <= o
  <2> TAKE j \in DOMAIN batches
  <2> HAVE j < k
  <2>1. /\ j \in firstKey..(nextBatch - 1) /\ j + 1 \in firstKey..nextBatch
        /\ \A i \in firstKey..nextBatch : StartIn(batches, nextBatch, nextOffset, i) \in Nat
    BY SMTT(100), TypeFacts DEF StartIn, BatchRuntime
  <2>2. EndOf(batches[j]) = StartIn(batches, nextBatch, nextOffset, j + 1)
    BY <2>1 DEF IndInv, Layout, LayoutOf
  <2>3. CASE j + 1 = k
    BY <2>1, <2>2, <2>3, <1>2
  <2>4. CASE j + 1 # k
    <3>1. j + 1 < k
      BY <2>4, <2>1, <1>2
    <3>2. StartIn(batches, nextBatch, nextOffset, j + 1) < StartIn(batches, nextBatch, nextOffset, k)
      BY <3>1, <2>1, <1>2 DEF IndInv, Layout, LayoutOf
    <3> QED BY <2>1, <2>2, <3>2, <1>2
  <2> QED BY <2>3, <2>4
<1>9. k <= stable.key
  <2>1. /\ stable.key \in firstKey..nextBatch
        /\ stable.end = StartIn(batches, nextBatch, nextOffset, stable.key)
        /\ \A i \in firstKey..nextBatch : StartIn(batches, nextBatch, nextOffset, i) \in Nat
    <3>1. ExactIn(batches, firstKey, nextBatch, nextOffset, stable, StablePass(batches))
      BY DEF IndInv, CursorsExact
    <3>2. /\ stable.key \in firstKey..nextBatch
          /\ stable.end = StartIn(batches, nextBatch, nextOffset, stable.key)
      BY <3>1 DEF ExactIn, OnBoundary
    <3>3. \A i \in firstKey..nextBatch : StartIn(batches, nextBatch, nextOffset, i) \in Nat
      BY SMTT(100), TypeFacts DEF StartIn, BatchRuntime
    <3> QED BY <3>2, <3>3
  <2>2. SUFFICES ASSUME stable.key < k PROVE FALSE
    BY <1>2, <2>1, TypeFacts
  <2>3. StartIn(batches, nextBatch, nextOffset, stable.key) < StartIn(batches, nextBatch, nextOffset, k)
    BY <1>2, <2>1, <2>2 DEF IndInv, Layout, LayoutOf
  <2> QED BY <1>2, <2>1, <2>3
<1>10. OutstandingSettles'
  <2> SUFFICES ASSUME NEW b \in inFlight
               PROVE  b \in DOMAIN batches' /\ batches'[b].status = "Pending"
    BY ZenonT(100), <1>1 DEF OutstandingSettles
  <2>1. b \in DOMAIN batches /\ batches[b].status = "Pending" /\ b >= stable.key
    BY TypeFacts, BelowStableDecided DEF Outcome
  <2>2. b \in k..(nextBatch - 1)
    <3>1. stable.key \in Nat /\ b \in firstKey..(nextBatch - 1) /\ nextBatch \in Nat
      BY <2>1, TypeFacts DEF IndInv, TypeOK, Cursor
    <3> QED BY SMTT(100), <2>1, <3>1, <1>2, <1>9
  <2> QED BY <2>1, <2>2, <1>3
<1>11. StableStep
  <2>1. logStart' >= logStart
    BY SMTT(100), <1>1, <1>2, TypeFacts
  <2>2. ASSUME NEW j \in DOMAIN batches
        PROVE  \/ j \in DOMAIN batches' /\ [batches'[j] EXCEPT !.replicas = batches[j].replicas] = batches[j]
               \/ j \notin DOMAIN batches' /\ EndOf(batches[j]) <= logStart'
    <3>1. CASE j < k
      BY <3>1, <1>1, <1>2, <1>3, <1>8, TypeFacts
    <3>2. CASE j >= k
      <4>1. j \in k..(nextBatch - 1)
        BY <3>2, <1>2, TypeFacts
      <4>2. j \in DOMAIN batches' /\ batches'[j] = batches[j] /\ batches[j] \in BatchRuntime
        BY <4>1, <1>3, TypeFacts
      <4> QED BY <4>2 DEF BatchRuntime
    <3> QED BY <3>1, <3>2, <1>2, TypeFacts
  <2> QED BY <1>7, <2>1, <2>2 DEF StableStep
<1> QED BY <1>5, <1>6, <1>10, <1>11 DEF IndInv

\* Ring changes, leader epochs and parked callers leave the log alone.
LEMMA SequencerInv ==
  ASSUME IndInv,
         \/ \E epoch \in 1..MaxRingEpoch, ring \in Rings : Reconfigure(epoch, ring)
         \/ \E epoch \in LeaderEpochs : ObserveLeaderEpoch(epoch)
  PROVE  IndInv' /\ StableStep
<1>1. /\ UNCHANGED <<nextBatch, nextOffset, firstKey, batches, logStart, contiguous, stable,
                     replicated, waiters, policy, atomicGroups, finalizedGroups, producers,
                     dedup, inFlight>>
      /\ ringEpoch' \in Nat /\ virtualLanes' \in Seq(Lanes) \ {<< >>}
      /\ leaderEpoch' \in LeaderEpochs
  BY SMTT(100), PartitionAssumption DEF Reconfigure, ObserveLeaderEpoch, watermarkVars, groupVars,
     producerVars, IndInv, TypeOK
<1>2. TypeOK'
  BY <1>1 DEF IndInv, TypeOK
<1> QED BY <1>1, <1>2, QuietStep

LEMMA WaitUntilVisibleInv ==
  ASSUME IndInv, NEW mode \in Modes, NEW through \in 1..MaxOffset,
         WaitUntilVisible(mode, through)
  PROVE  IndInv' /\ StableStep
<1>1. /\ UNCHANGED <<ringEpoch, virtualLanes, leaderEpoch, nextBatch, nextOffset, firstKey,
                     batches, logStart, contiguous, stable, replicated, policy, atomicGroups,
                     finalizedGroups, producers, dedup, inFlight>>
      /\ waiters' = waiters \cup {[mode |-> mode, through |-> through]}
      /\ through > Visible(mode, stable, replicated)
      /\ through \in Nat
  BY SMTT(100), PartitionAssumption DEF WaitUntilVisible, sequencerVars, groupVars, producerVars
<1>2. TypeOK'
  <2>1. waiters' \subseteq [mode : Modes, through : Nat]
    <3>1. waiters \subseteq [mode : Modes, through : Nat]
      BY DEF IndInv, TypeOK
    <3>2. [mode |-> mode, through |-> through] \in [mode : Modes, through : Nat]
      BY ZenonT(100), <1>1
    <3> QED BY SMTT(100), <1>1, <3>1, <3>2
  <2> QED BY <1>1, <2>1 DEF IndInv, TypeOK
<1>3. Layout' /\ CursorsExact' /\ OutstandingSettles'
  BY <1>1 DEF IndInv, Layout, CursorsExact, OutstandingSettles
<1>4. NoLostWakeup'
  BY SMTT(100), <1>1 DEF IndInv, NoLostWakeup
<1>5. StableStep
  <2>1. \A k \in DOMAIN batches : [batches'[k] EXCEPT !.replicas = batches[k].replicas] = batches[k]
    BY <1>1, TypeFacts DEF BatchRuntime
  <2> QED BY <1>1, <2>1, TypeFacts, StableStepKept
<1> QED BY <1>2, <1>3, <1>4, <1>5 DEF IndInv

\* A step that changes nothing.
LEMMA StutterInv ==
  ASSUME IndInv, UNCHANGED partitionVars
  PROVE  IndInv' /\ StableStep
<1>1. UNCHANGED <<ringEpoch, virtualLanes, leaderEpoch, nextBatch, nextOffset, firstKey,
                  batches, logStart, contiguous, stable, replicated, waiters, policy,
                  atomicGroups, finalizedGroups, producers, dedup, inFlight>>
  BY DEF partitionVars, sequencerVars, watermarkVars, groupVars, producerVars
<1>2. TypeOK'
  BY <1>1 DEF IndInv, TypeOK
<1> QED BY <1>1, <1>2, QuietStep

-----------------------------------------------------------------------------
\* Every step keeps the invariant and what was readable.
LEMMA NextInv ==
  ASSUME IndInv, [Next]_partitionVars
  PROVE  IndInv' /\ StableStep
<1>1. CASE \E p \in ProducerInputs : \E g \in GroupInputs : \E n \in Counts, e \in LeaderEpochs \cup {None} :
             Reserve(p, g, n, e)
  BY <1>1, ReserveInv
<1>2. CASE \E b \in inFlight, r \in 1..ReplicationFactor : Complete(b, r)
  BY <1>2, CompleteInv
<1>3. CASE \E b \in inFlight : FailNotWritten(b)
  BY <1>3, FailNotWrittenInv
<1>4. CASE \E b \in inFlight : FailAmbiguous(b)
  BY <1>4, FailAmbiguousInv
<1>5. CASE \E b \in DOMAIN batches, r \in 1..ReplicationFactor : SetDurableReplicaCount(b, r)
  BY <1>5, SetDurableReplicaCountInv
<1>6. CASE \E t \in DOMAIN atomicGroups, outcome \in Outcome : FinalizeAtomicGroup(t, outcome)
  BY <1>6, FinalizeAtomicGroupInv
<1>7. CASE \E generation \in 1..MaxGeneration, isr \in 1..ReplicationFactor :
             UpdateReplicationPolicy(generation, isr)
  BY <1>7, UpdateReplicationPolicyInv
<1>8. CASE \E o \in 1..MaxOffset, k \in 0..MaxBatches : Truncate(o, k)
  BY <1>8, TruncateInv
<1>9. CASE \/ \E epoch \in 1..MaxRingEpoch, ring \in Rings : Reconfigure(epoch, ring)
           \/ \E epoch \in LeaderEpochs : ObserveLeaderEpoch(epoch)
  BY <1>9, SequencerInv
<1>10. CASE \E mode \in Modes, through \in 1..MaxOffset : WaitUntilVisible(mode, through)
  BY <1>10, WaitUntilVisibleInv
<1>11. CASE UNCHANGED partitionVars
  BY <1>11, StutterInv
<1> QED BY SMTT(100), <1>1, <1>2, <1>3, <1>4, <1>5, <1>6, <1>7, <1>8, <1>9, <1>10, <1>11 DEF Next

\* The inductive invariant holds in every reachable state.
THEOREM Invariance == Spec => []IndInv
<1>1. IndInv /\ [Next]_partitionVars => IndInv'
  BY NextInv
<1> QED BY InitInv, <1>1, PTL DEF Spec

\* The coordinator's state stays well formed.
THEOREM TypeCorrect == Spec => []TypeOK
<1>1. IndInv => TypeOK
  BY SMTT(100) DEF IndInv
<1> QED BY <1>1, Invariance, PTL

\* The cached watermarks equal what a scan of the index would give, after any
\* sequence of commands (advance_cached_watermarks and its callers).
THEOREM WatermarksCorrect == Spec => []CachedWatermarksExact
<1>1. IndInv => CachedWatermarksExact
  <2> SUFFICES ASSUME IndInv PROVE CachedWatermarksExact
    OBVIOUS
  <2>1. /\ firstKey \in Nat /\ nextBatch \in Nat /\ nextOffset \in Nat
        /\ DOMAIN batches = firstKey..(nextBatch - 1)
        /\ \A k \in firstKey..nextBatch : StartIn(batches, nextBatch, nextOffset, k) \in Nat
    BY TypeFacts DEF StartIn, BatchRuntime
  <2>2. ASSUME NEW c, NEW pass, ExactIn(batches, firstKey, nextBatch, nextOffset, c, pass)
        PROVE  Barrier(c.end, DOMAIN batches \ pass)
    <3>1. /\ c.key \in firstKey..nextBatch /\ c.key \notin pass
          /\ c.end = StartIn(batches, nextBatch, nextOffset, c.key)
          /\ \A k \in firstKey..(c.key - 1) : k \in pass
      BY <2>2 DEF ExactIn, OnBoundary
    <3>2. ASSUME NEW k \in DOMAIN batches \ pass PROVE c.end <= batches[k].first
      <4>1. /\ k \in firstKey..nextBatch /\ k >= c.key
            /\ batches[k].first = StartIn(batches, nextBatch, nextOffset, k)
        BY <2>1, <3>1 DEF StartIn
      <4>2. CASE k = c.key
        BY <4>1, <4>2, <3>1, <2>1
      <4>3. CASE c.key < k
        <5>1. StartIn(batches, nextBatch, nextOffset, c.key) < StartIn(batches, nextBatch, nextOffset, k)
          BY <4>1, <4>3, <3>1 DEF IndInv, Layout, LayoutOf
        <5> QED BY SMTT(100), <5>1, <4>1, <3>1, <2>1
      <4> QED BY SMTT(100), <4>1, <4>2, <4>3, <2>1, <3>1
    <3>3. CASE c.key = nextBatch
      BY <3>1, <3>2, <3>3 DEF Barrier, StartIn
    <3>4. CASE c.key # nextBatch
      <4>1. c.key \in DOMAIN batches \ pass /\ batches[c.key].first = c.end
        BY <3>1, <3>4, <2>1 DEF StartIn
      <4> QED BY <4>1, <3>2 DEF Barrier
    <3> QED BY <3>3, <3>4
  <2>3. /\ {k \in DOMAIN batches : batches[k].status = "Pending"}
             = DOMAIN batches \ ContiguousPass(batches)
        /\ {k \in DOMAIN batches : batches[k].status \in {"Pending", "Unresolved"}}
             = DOMAIN batches \ StablePass(batches)
    <3>1. \A k \in DOMAIN batches : batches[k].status \in Status
      BY TypeFacts DEF BatchRuntime
    <3> QED BY <3>1 DEF ContiguousPass, StablePass, Outcome, Status
  <2>4. {k \in DOMAIN batches :
           \/ batches[k].status = "Pending"
           \/ batches[k].status # "Aborted" /\ batches[k].replicas < policy.minIsr}
          = DOMAIN batches \ ReplicatedPass(batches, policy.minIsr)
    <3>1. policy.minIsr \in Nat
      BY ZenonT(100) DEF IndInv, TypeOK
    <3> QED BY SMTT(100), <3>1, TypeFacts DEF ReplicatedPass
  <2>5. Barrier(contiguous.end, DOMAIN batches \ ContiguousPass(batches))
    BY <2>2 DEF IndInv, CursorsExact
  <2>6. Barrier(stable.end, DOMAIN batches \ StablePass(batches))
    BY <2>2 DEF IndInv, CursorsExact
  <2>7. Barrier(replicated.end, DOMAIN batches \ ReplicatedPass(batches, policy.minIsr))
    BY <2>2 DEF IndInv, CursorsExact
  <2> QED BY ONLY ZenonT(30), <2>3, <2>4, <2>5, <2>6, <2>7 DEF CachedWatermarksExact
<1> QED BY <1>1, Invariance, PTL

\* Every result that is still out finds its reservation Pending (mark_batch).
THEOREM OutstandingAlwaysSettles == Spec => []OutstandingSettles
<1>1. IndInv => OutstandingSettles
  BY DEF IndInv
<1> QED BY <1>1, Invariance, PTL

\* No caller stays parked on a visible offset (notify_waiters).
THEOREM WakeupsNotLost == Spec => []NoLostWakeup
<1>1. IndInv => NoLostWakeup
  BY DEF IndInv
<1> QED BY <1>1, Invariance, PTL

\* Nothing that was readable changes or moves back until retention drops it.
THEOREM HistoryFinal == Spec => StableHistoryFinal
<1>1. IndInv /\ [Next]_partitionVars => [StableStep]_partitionVars
  BY NextInv
<1> QED BY <1>1, Invariance, PTL DEF Spec, StableHistoryFinal

-----------------------------------------------------------------------------
\* A producer's cursor is past every batch the producer reserved.
CursorsCover ==
  \A k \in DOMAIN batches : batches[k].producer # None =>
    /\ batches[k].producer.id \in DOMAIN producers
    /\ batches[k].producer.epoch <= producers[batches[k].producer.id].epoch
    /\ batches[k].producer.seq + batches[k].count <= producers[batches[k].producer.id].next

\* Receipts name reserved batches.
ReceiptsReserved == \A d \in DOMAIN dedup : dedup[d].batch < nextBatch

AppendInv == CursorsCover /\ ReceiptsReserved /\ ProducerOrder /\ ReceiptsAgree /\ PlacementFenced

-----------------------------------------------------------------------------
(***************************************************************************)
(* Appends.                                                                *)
(***************************************************************************)

\* No batch ends past the sequencer's next offset.
LEMMA EndsWithinLog ==
  ASSUME IndInv, NEW k \in DOMAIN batches
  PROVE  EndOf(batches[k]) \in Nat /\ EndOf(batches[k]) <= nextOffset
<1>1. /\ firstKey \in Nat /\ nextBatch \in Nat /\ nextOffset \in Nat
      /\ k \in firstKey..(nextBatch - 1) /\ k + 1 \in firstKey..nextBatch
      /\ nextBatch \in firstKey..nextBatch
      /\ batches \in [firstKey..(nextBatch - 1) -> BatchRuntime]
  BY TypeFacts
<1>2. EndOf(batches[k]) = StartIn(batches, nextBatch, nextOffset, k + 1)
  BY <1>1 DEF IndInv, Layout, LayoutOf
<1>3. CASE k + 1 = nextBatch
  BY <1>1, <1>2, <1>3 DEF StartIn
<1>4. CASE k + 1 # nextBatch
  <2>1. StartIn(batches, nextBatch, nextOffset, k + 1)
          < StartIn(batches, nextBatch, nextOffset, nextBatch)
    BY <1>1, <1>4 DEF IndInv, Layout, LayoutOf
  <2>2. StartIn(batches, nextBatch, nextOffset, k + 1) \in Nat
    BY <1>1, <1>4 DEF StartIn, BatchRuntime
  <2>3. StartIn(batches, nextBatch, nextOffset, nextBatch) = nextOffset
    BY DEF StartIn
  <2> QED BY <1>1, <1>2, <2>1, <2>2, <2>3
<1> QED BY <1>3, <1>4

\* Facts about numbers that the steps below cite.
LEMMA AtMost ==
  ASSUME NEW i \in Int, NEW j \in Int, NEW k \in Int, i <= j, j <= k
  PROVE  i <= k
  OBVIOUS

LEMMA SumNat ==
  ASSUME NEW i \in Nat, NEW j \in Nat
  PROVE  /\ i + j \in Nat /\ i <= i + j
         /\ i \in Int /\ i + j \in Int /\ i <= i
  OBVIOUS

\* A receipt names a batch by its id.
LEMMA ReceiptTypes ==
  ASSUME IndInv
  PROVE  \A d \in DOMAIN dedup : dedup[d].batch \in Nat
  BY DEF IndInv, TypeOK

\* The numbers that the invariants compare.
LEMMA Numbers ==
  ASSUME IndInv
  PROVE  /\ leaderEpoch \in Nat /\ ringEpoch \in Nat
         /\ \A k \in DOMAIN batches :
              /\ batches[k].leaderEpoch \in Nat /\ batches[k].ringEpoch \in Nat
              /\ batches[k].first \in Nat /\ batches[k].count \in Nat
              /\ batches[k].producer # None =>
                   batches[k].producer.epoch \in Nat /\ batches[k].producer.seq \in Nat
         /\ \A p \in DOMAIN producers : producers[p].epoch \in Nat /\ producers[p].next \in Nat
<1>1. leaderEpoch \in Nat /\ ringEpoch \in Nat
  BY PartitionAssumption DEF IndInv, TypeOK, LeaderEpochs
<1>2. \A p \in DOMAIN producers : producers[p].epoch \in Nat /\ producers[p].next \in Nat
  BY PartitionAssumption DEF IndInv, TypeOK, ProducerEpochs
<1>3. ASSUME NEW k \in DOMAIN batches
      PROVE  /\ batches[k].leaderEpoch \in Nat /\ batches[k].ringEpoch \in Nat
             /\ batches[k].first \in Nat /\ batches[k].count \in Nat
             /\ batches[k].producer # None =>
                  batches[k].producer.epoch \in Nat /\ batches[k].producer.seq \in Nat
  <2>1. batches[k] \in BatchRuntime
    BY TypeFacts
  <2>2. batches[k].producer \in ProducerIdentity \cup {None}
    BY <2>1 DEF BatchRuntime
  <2> QED BY <2>1, <2>2, PartitionAssumption
          DEF BatchRuntime, LeaderEpochs, Counts, ProducerIdentity, ProducerEpochs
<1> QED BY <1>1, <1>2, <1>3

\* Steps that reserve nothing: batches keep who placed them where, or go.
LEMMA PlacementKept ==
  ASSUME IndInv, AppendInv, leaderEpoch' \in Nat, ringEpoch' \in Nat,
         leaderEpoch <= leaderEpoch', ringEpoch <= ringEpoch',
         DOMAIN batches' \subseteq DOMAIN batches,
         \A k \in DOMAIN batches' :
           /\ batches'[k].first = batches[k].first /\ batches'[k].count = batches[k].count
           /\ batches'[k].leaderEpoch = batches[k].leaderEpoch
           /\ batches'[k].ringEpoch = batches[k].ringEpoch
           /\ batches'[k].producer = batches[k].producer,
         DOMAIN producers' = DOMAIN producers,
         \A p \in DOMAIN producers :
           producers'[p].epoch = producers[p].epoch /\ producers'[p].next = producers[p].next
  PROVE  CursorsCover' /\ ProducerOrder' /\ PlacementFenced'
<1>1. CursorsCover'
  BY DEF AppendInv, CursorsCover
<1>2. ProducerOrder'
  BY ZenonT(100) DEF AppendInv, ProducerOrder
<1>3. PlacementFenced'
  <2>1. ASSUME NEW k \in DOMAIN batches'
        PROVE  batches'[k].leaderEpoch <= leaderEpoch' /\ batches'[k].ringEpoch <= ringEpoch'
    <3>1. batches[k].leaderEpoch <= leaderEpoch /\ batches[k].ringEpoch <= ringEpoch
      BY ZenonT(100) DEF AppendInv, PlacementFenced
    <3>2. /\ {leaderEpoch, leaderEpoch', ringEpoch, ringEpoch'} \subseteq Int
          /\ batches[k].leaderEpoch \in Int /\ batches[k].ringEpoch \in Int
      BY ZenonT(100), Numbers, SumNat
    <3>3. batches[k].leaderEpoch <= leaderEpoch' /\ batches[k].ringEpoch <= ringEpoch'
      BY ZenonT(100), <3>1, <3>2, AtMost
    <3> QED BY ZenonT(100), <3>3
  <2>2. ASSUME NEW k \in DOMAIN batches', NEW j \in DOMAIN batches', j < k
        PROVE  /\ batches'[j].leaderEpoch <= batches'[k].leaderEpoch
               /\ batches'[j].ringEpoch <= batches'[k].ringEpoch
               /\ EndOf(batches'[j]) <= batches'[k].first
    BY <2>2 DEF AppendInv, PlacementFenced, EndOf
  <2> QED BY ZenonT(100), <2>1, <2>2 DEF PlacementFenced
<1> QED BY ZenonT(100), <1>1, <1>2, <1>3

\* Steps that store no receipt: batches whose result is known keep what their
\* receipts say.
LEMMA ReceiptsKept ==
  ASSUME IndInv, AppendInv, nextBatch' = nextBatch, dedup' = dedup,
         DOMAIN batches' \subseteq DOMAIN batches,
         \A k \in DOMAIN batches' : batches[k].status # "Pending" =>
           /\ batches'[k].count = batches[k].count /\ batches'[k].producer = batches[k].producer
           /\ batches'[k].replicas = batches[k].replicas /\ batches'[k].status # "Pending"
  PROVE  ReceiptsReserved' /\ ReceiptsAgree'
<1>1. ReceiptsReserved'
  BY ZenonT(100) DEF AppendInv, ReceiptsReserved
<1>2. ASSUME NEW d \in DOMAIN dedup, dedup[d].batch \in DOMAIN batches'
      PROVE  LET b == batches'[dedup[d].batch]
             IN  /\ b.producer # None /\ DedupKey(b.producer) = d
                 /\ b.count = dedup[d].count /\ b.status # "Pending"
                 /\ b.replicas = dedup[d].replicas
  BY <1>2 DEF AppendInv, ReceiptsAgree
<1>3. ReceiptsAgree'
  BY <1>2 DEF ReceiptsAgree
<1> QED BY <1>1, <1>3

\* A reservation continues its producer's sequence and takes the end of the log.
LEMMA ReserveAppend ==
  ASSUME IndInv, AppendInv, NEW p \in ProducerInputs, NEW g \in GroupInputs, NEW n \in Counts,
         NEW e \in LeaderEpochs \cup {None}, Reserve(p, g, n, e)
  PROVE  AppendInv'
<1> DEFINE v == [first |-> nextOffset, count |-> n,
        lane |-> LaneOf(virtualLanes, nextBatch), ringEpoch |-> ringEpoch,
        leaderEpoch |-> AdmittedEpoch(e), status |-> "Pending", replicas |-> 0,
        producer |-> p, group |-> g]
<1>0. /\ nextBatch' = nextBatch + 1 /\ batches' = Insert(batches, nextBatch, v)
      /\ leaderEpoch' = AdmittedEpoch(e) /\ EpochAdmitted(e) /\ NewSequence(p)
      /\ producers' = AdvanceProducer(producers, p, n) /\ ringEpoch' = ringEpoch /\ dedup' = dedup
  BY ZenonT(100) DEF Reserve
<1>a. /\ v.first = nextOffset /\ v.count = n /\ v.leaderEpoch = AdmittedEpoch(e)
      /\ v.ringEpoch = ringEpoch /\ v.producer = p
  BY ZenonT(100)
<1> HIDE DEF v
<1>b. /\ firstKey \in Nat /\ nextBatch \in Nat /\ DOMAIN batches = firstKey..(nextBatch - 1)
  BY ZenonT(100), TypeFacts
<1>c. /\ DOMAIN batches' = DOMAIN batches \cup {nextBatch} /\ batches'[nextBatch] = v
      /\ \A k \in DOMAIN batches : k # nextBatch => batches'[k] = batches[k]
  BY ZenonT(100), <1>0 DEF Insert
<1>1. /\ nextBatch \in Nat /\ nextBatch' = nextBatch + 1 /\ n \in Nat /\ n > 0
      /\ nextBatch \notin DOMAIN batches /\ \A k \in DOMAIN batches : k \in Nat /\ k < nextBatch
      /\ DOMAIN batches' = DOMAIN batches \cup {nextBatch}
      /\ \A k \in DOMAIN batches : batches'[k] = batches[k]
  <2>1. n \in Nat /\ n > 0
    BY PartitionAssumption DEF Counts
  <2>2. nextBatch \notin DOMAIN batches /\ \A k \in DOMAIN batches : k \in Nat /\ k < nextBatch
    BY <1>b
  <2> QED BY ZenonT(100), <1>0, <1>b, <1>c, <2>1, <2>2
<1>2. /\ batches'[nextBatch].first = nextOffset /\ batches'[nextBatch].count = n
      /\ batches'[nextBatch].leaderEpoch = leaderEpoch'
      /\ batches'[nextBatch].ringEpoch = ringEpoch' /\ batches'[nextBatch].producer = p
  BY <1>0, <1>a, <1>c
<1>3. /\ leaderEpoch' \in Nat /\ leaderEpoch <= leaderEpoch' /\ ringEpoch' = ringEpoch
      /\ dedup' = dedup /\ producers' = AdvanceProducer(producers, p, n) /\ NewSequence(p)
  <2>1. leaderEpoch \in Nat
    BY ZenonT(100), Numbers
  <2>2. leaderEpoch' \in Nat /\ leaderEpoch <= leaderEpoch'
    BY <1>0, <2>1, PartitionAssumption DEF EpochAdmitted, AdmittedEpoch, LeaderEpochs
  <2> QED BY <1>0, <2>2, ZenonT(100)
<1>4. p # None => p.epoch \in Nat /\ p.seq \in Nat
  BY PartitionAssumption DEF ProducerInputs, ProducerEpochs
<1>5. p # None => /\ DOMAIN producers' = DOMAIN producers \cup {p.id}
                  /\ producers'[p.id].epoch = p.epoch /\ producers'[p.id].next = p.seq + n
                  /\ \A q \in DOMAIN producers : q # p.id => producers'[q] = producers[q]
  BY ZenonT(100), <1>3 DEF AdvanceProducer, Insert
<1>6. p # None /\ p.id \in DOMAIN producers =>
        producers[p.id].epoch <= p.epoch /\ producers[p.id].next = p.seq
  BY <1>3, <1>4, Numbers DEF NewSequence
<1>7. p = None => producers' = producers
  BY <1>3 DEF AdvanceProducer
<1>8. CursorsCover'
  <2>1. ASSUME NEW k \in DOMAIN batches, batches[k].producer # None
        PROVE  /\ batches[k].producer.id \in DOMAIN producers'
               /\ batches[k].producer.epoch <= producers'[batches[k].producer.id].epoch
               /\ batches[k].producer.seq + batches[k].count
                    <= producers'[batches[k].producer.id].next
    <3>1. /\ batches[k].producer.id \in DOMAIN producers
          /\ batches[k].producer.epoch <= producers[batches[k].producer.id].epoch
          /\ batches[k].producer.seq + batches[k].count
               <= producers[batches[k].producer.id].next
      BY <2>1 DEF AppendInv, CursorsCover
    <3>2. CASE p = None \/ batches[k].producer.id # p.id
      BY <3>1, <3>2, <1>5, <1>7
    <3>3. CASE p # None /\ batches[k].producer.id = p.id
      <4> DEFINE ep == batches[k].producer.epoch
                 last == batches[k].producer.seq + batches[k].count
      <4>1. /\ ep <= p.epoch /\ last <= p.seq
            /\ producers'[p.id].epoch = p.epoch /\ producers'[p.id].next = p.seq + n
        <5>1. /\ producers[p.id].epoch <= p.epoch /\ producers[p.id].next = p.seq
              /\ p.id \in DOMAIN producers
              /\ ep <= producers[p.id].epoch /\ last <= producers[p.id].next
          BY ZenonT(100), <3>1, <3>3, <1>6
        <5>2. ep \in Int /\ p.epoch \in Int /\ producers[p.id].epoch \in Int
          BY ZenonT(100), <2>1, <3>3, <5>1, <1>4, Numbers, SumNat
        <5>3. ep <= p.epoch
          BY ZenonT(100), <5>1, <5>2, AtMost
        <5> QED BY ZenonT(100), <3>3, <5>1, <5>3, <1>5
      <4>2. last \in Int /\ p.seq \in Int /\ p.seq + n \in Int /\ p.seq <= p.seq + n
        BY ZenonT(100), <2>1, <3>3, <1>1, <1>4, Numbers, SumNat
      <4>3. last <= p.seq + n
        BY ZenonT(100), <4>1, <4>2, AtMost
      <4> QED BY ZenonT(100), <3>3, <4>1, <4>3, <1>5
    <3> QED BY ZenonT(100), <3>2, <3>3
  <2>2. p # None => /\ p.id \in DOMAIN producers' /\ p.epoch <= producers'[p.id].epoch
                    /\ p.seq + n <= producers'[p.id].next
    BY ZenonT(100), <1>1, <1>4, <1>5, SumNat
  <2> QED BY ZenonT(100), <2>1, <2>2, <1>1, <1>2 DEF CursorsCover
<1>9. ProducerOrder'
  <2>1. ASSUME NEW j \in DOMAIN batches, p # None, batches[j].producer # None,
               batches[j].producer.id = p.id
        PROVE  /\ batches[j].producer.epoch <= p.epoch
               /\ batches[j].producer.seq + batches[j].count <= p.seq
    <3>1. /\ p.id \in DOMAIN producers
          /\ batches[j].producer.epoch <= producers[p.id].epoch
          /\ batches[j].producer.seq + batches[j].count <= producers[p.id].next
      BY <2>1 DEF AppendInv, CursorsCover
    <3>2. producers[p.id].epoch <= p.epoch /\ producers[p.id].next = p.seq
      BY ZenonT(100), <3>1, <2>1, <1>6
    <3>3. batches[j].producer.epoch \in Int /\ producers[p.id].epoch \in Int /\ p.epoch \in Int
      BY ZenonT(100), <3>1, <2>1, <1>4, Numbers, SumNat
    <3>4. batches[j].producer.epoch <= p.epoch
      BY ZenonT(100), <3>1, <3>2, <3>3, AtMost
    <3> QED BY ZenonT(100), <3>1, <3>2, <3>4
  <2>2. ASSUME NEW j \in DOMAIN batches', NEW k \in DOMAIN batches', j < k,
               batches'[j].producer # None, batches'[k].producer # None,
               batches'[j].producer.id = batches'[k].producer.id
        PROVE  /\ batches'[j].producer.epoch <= batches'[k].producer.epoch
               /\ batches'[j].producer.seq + batches'[j].count <= batches'[k].producer.seq
    <3>1. j \in DOMAIN batches
      BY <1>1, <2>2
    <3>2. CASE k = nextBatch
      BY ZenonT(100), <1>1, <1>2, <2>1, <2>2, <3>1, <3>2
    <3>3. CASE k # nextBatch
      <4>1. k \in DOMAIN batches
        BY <1>1, <3>3
      <4> QED BY <1>1, <2>2, <3>1, <4>1 DEF AppendInv, ProducerOrder
    <3> QED BY <3>2, <3>3
  <2> QED BY <2>2 DEF ProducerOrder
<1>10. ReceiptsReserved'
  <2>1. \A d \in DOMAIN dedup : dedup[d].batch \in Nat /\ dedup[d].batch < nextBatch
    <3>1. \A d \in DOMAIN dedup : dedup[d].batch < nextBatch
      BY DEF AppendInv, ReceiptsReserved
    <3>2. \A d \in DOMAIN dedup : dedup[d].batch \in Nat
      BY ZenonT(100), ReceiptTypes
    <3> QED BY ZenonT(100), <3>1, <3>2
  <2> QED BY <2>1, <1>1, <1>3 DEF ReceiptsReserved
<1>11. ReceiptsAgree'
  <2>1. \A d \in DOMAIN dedup : dedup[d].batch # nextBatch
    BY <1>1 DEF AppendInv, ReceiptsReserved
  <2>2. \A d \in DOMAIN dedup : dedup[d].batch \in DOMAIN batches' =>
          dedup[d].batch \in DOMAIN batches /\ batches'[dedup[d].batch] = batches[dedup[d].batch]
    BY ZenonT(100), <2>1, <1>1
  <2>3. ReceiptsAgree /\ dedup' = dedup
    BY ZenonT(100), <1>3 DEF AppendInv
  <2> QED BY ZenonT(100), <2>2, <2>3 DEF ReceiptsAgree
<1>12. PlacementFenced'
  <2>1. ASSUME NEW k \in DOMAIN batches'
        PROVE  batches'[k].leaderEpoch <= leaderEpoch' /\ batches'[k].ringEpoch <= ringEpoch'
    <3>1. CASE k = nextBatch
      <4>1. /\ batches'[k].leaderEpoch = leaderEpoch' /\ batches'[k].ringEpoch = ringEpoch'
            /\ leaderEpoch' \in Nat /\ ringEpoch' \in Nat
        BY ZenonT(100), <3>1, <1>2, <1>3, Numbers
      <4> QED BY ZenonT(100), <4>1, SumNat
    <3>2. CASE k # nextBatch
      <4>1. k \in DOMAIN batches /\ batches'[k] = batches[k]
        BY ZenonT(100), <1>1, <3>2
      <4>2. batches[k].leaderEpoch <= leaderEpoch /\ batches[k].ringEpoch <= ringEpoch
        BY <4>1 DEF AppendInv, PlacementFenced
      <4>3. /\ batches[k].leaderEpoch \in Int /\ leaderEpoch \in Int /\ leaderEpoch' \in Int
            /\ leaderEpoch <= leaderEpoch'
        BY ZenonT(100), <4>1, <1>3, Numbers, SumNat
      <4>4. batches[k].leaderEpoch <= leaderEpoch'
        BY ZenonT(100), <4>2, <4>3, AtMost
      <4> QED BY ZenonT(100), <4>1, <4>2, <4>4, <1>3
    <3> QED BY <3>1, <3>2
  <2>2. ASSUME NEW k \in DOMAIN batches', NEW j \in DOMAIN batches', j < k
        PROVE  /\ batches'[j].leaderEpoch <= batches'[k].leaderEpoch
               /\ batches'[j].ringEpoch <= batches'[k].ringEpoch
               /\ EndOf(batches'[j]) <= batches'[k].first
    <3>1. j \in DOMAIN batches /\ batches'[j] = batches[j]
      BY <1>1, <2>2
    <3>2. CASE k = nextBatch
      BY ZenonT(100), <3>1, <3>2, <2>1, <1>2, EndsWithinLog
    <3>3. CASE k # nextBatch
      <4>1. k \in DOMAIN batches /\ batches'[k] = batches[k]
        BY <1>1, <3>3
      <4> QED BY <2>2, <3>1, <4>1 DEF AppendInv, PlacementFenced
    <3> QED BY <3>2, <3>3
  <2> QED BY ZenonT(100), <2>1, <2>2 DEF PlacementFenced
<1> QED BY <1>8, <1>9, <1>10, <1>11, <1>12 DEF AppendInv

\* A completed append stores the receipt of the batch its producer reserved.
LEMMA CompleteAppend ==
  ASSUME IndInv, AppendInv, NEW b \in inFlight, NEW r \in 1..ReplicationFactor, Complete(b, r)
  PROVE  AppendInv'
<1>1. /\ b \in DOMAIN batches /\ b \in Nat /\ b < nextBatch /\ batches[b].status = "Pending"
      /\ batches[b] \in BatchRuntime /\ UNCHANGED <<leaderEpoch, ringEpoch, nextBatch, producers>>
  BY TypeFacts DEF Complete, sequencerVars
<1>2. /\ DOMAIN batches' = DOMAIN batches
      /\ \A k \in DOMAIN batches : k # b => batches'[k] = batches[k]
      /\ batches'[b] = [[batches[b] EXCEPT !.status = SettledStatus(b)]
                          EXCEPT !.replicas = Greatest(batches[b].replicas, r)]
  BY SMTT(100), <1>1, TypeFacts DEF Complete, BatchRuntime
<1>3. /\ batches'[b].first = batches[b].first /\ batches'[b].count = batches[b].count
      /\ batches'[b].leaderEpoch = batches[b].leaderEpoch
      /\ batches'[b].ringEpoch = batches[b].ringEpoch
      /\ batches'[b].producer = batches[b].producer /\ batches'[b].status # "Pending"
  BY ZenonT(100), <1>1, <1>2 DEF BatchRuntime, SettledStatus
<1>4. CursorsCover' /\ ProducerOrder' /\ PlacementFenced'
  <2>1. /\ leaderEpoch' \in Nat /\ ringEpoch' \in Nat /\ leaderEpoch <= leaderEpoch'
        /\ ringEpoch <= ringEpoch' /\ producers' = producers
    BY <1>1, Numbers
  <2>2. /\ DOMAIN batches' \subseteq DOMAIN batches
        /\ \A k \in DOMAIN batches' :
             /\ batches'[k].first = batches[k].first /\ batches'[k].count = batches[k].count
             /\ batches'[k].leaderEpoch = batches[k].leaderEpoch
             /\ batches'[k].ringEpoch = batches[k].ringEpoch
             /\ batches'[k].producer = batches[k].producer
    BY ZenonT(100), <1>2, <1>3
  <2> QED BY <2>1, <2>2, PlacementKept
<1>5. dedup' = IF batches[b].producer = None THEN dedup
               ELSE Insert(dedup, DedupKey(batches[b].producer),
                           [count |-> batches[b].count, batch |-> b,
                            replicas |-> batches'[b].replicas])
  BY DEF Complete
<1>6. \A d \in DOMAIN dedup : dedup[d].batch # b
  BY <1>1 DEF AppendInv, ReceiptsAgree
<1>7. ReceiptsReserved'
  BY ZenonT(100), <1>1, <1>5 DEF AppendInv, ReceiptsReserved, Insert
<1>8. ReceiptsAgree'
  <2>1. ASSUME NEW d \in DOMAIN dedup', dedup'[d].batch \in DOMAIN batches'
        PROVE  LET x == batches'[dedup'[d].batch]
               IN  /\ x.producer # None /\ DedupKey(x.producer) = d
                   /\ x.count = dedup'[d].count /\ x.status # "Pending"
                   /\ x.replicas = dedup'[d].replicas
    <3>1. CASE batches[b].producer # None /\ d = DedupKey(batches[b].producer)
      BY <3>1, <1>3, <1>5 DEF Insert
    <3>2. CASE batches[b].producer = None \/ d # DedupKey(batches[b].producer)
      <4>1. d \in DOMAIN dedup /\ dedup'[d] = dedup[d]
        BY <3>2, <1>5 DEF Insert
      <4> QED BY <4>1, <2>1, <1>2, <1>6 DEF AppendInv, ReceiptsAgree
    <3> QED BY ZenonT(100), <3>1, <3>2
  <2> QED BY ZenonT(100), <2>1 DEF ReceiptsAgree
<1> QED BY <1>4, <1>7, <1>8 DEF AppendInv

\* Replication progress raises a batch and its receipts alike.
LEMMA SetDurableReplicaCountAppend ==
  ASSUME IndInv, AppendInv, NEW b \in DOMAIN batches, NEW r \in 1..ReplicationFactor,
         SetDurableReplicaCount(b, r)
  PROVE  AppendInv'
<1>1. /\ batches[b] \in BatchRuntime /\ batches[b].status # "Pending"
      /\ UNCHANGED <<leaderEpoch, ringEpoch, nextBatch, producers>>
  BY TypeFacts DEF SetDurableReplicaCount, sequencerVars
<1>2. /\ DOMAIN batches' = DOMAIN batches
      /\ \A k \in DOMAIN batches : k # b => batches'[k] = batches[k]
      /\ batches'[b] = [batches[b] EXCEPT !.replicas = Greatest(batches[b].replicas, r)]
  BY SMTT(100), <1>1, TypeFacts DEF SetDurableReplicaCount, BatchRuntime
<1>3. /\ batches'[b].first = batches[b].first /\ batches'[b].count = batches[b].count
      /\ batches'[b].leaderEpoch = batches[b].leaderEpoch
      /\ batches'[b].ringEpoch = batches[b].ringEpoch
      /\ batches'[b].producer = batches[b].producer /\ batches'[b].status = batches[b].status
      /\ batches'[b].replicas = Greatest(batches[b].replicas, r)
  BY ZenonT(100), <1>1, <1>2 DEF BatchRuntime
<1>4. CursorsCover' /\ ProducerOrder' /\ PlacementFenced'
  <2>1. /\ leaderEpoch' \in Nat /\ ringEpoch' \in Nat /\ leaderEpoch <= leaderEpoch'
        /\ ringEpoch <= ringEpoch' /\ producers' = producers
    BY SMTT(100), <1>1, Numbers
  <2>2. /\ DOMAIN batches' \subseteq DOMAIN batches
        /\ \A k \in DOMAIN batches' :
             /\ batches'[k].first = batches[k].first /\ batches'[k].count = batches[k].count
             /\ batches'[k].leaderEpoch = batches[k].leaderEpoch
             /\ batches'[k].ringEpoch = batches[k].ringEpoch
             /\ batches'[k].producer = batches[k].producer
    BY ZenonT(100), <1>2, <1>3
  <2> QED BY <2>1, <2>2, PlacementKept
<1>5. /\ DOMAIN dedup' = DOMAIN dedup
      /\ \A d \in DOMAIN dedup : dedup[d] \in [count : Counts, batch : Nat, replicas : Nat]
      /\ \A d \in DOMAIN dedup : dedup[d].batch # b => dedup'[d] = dedup[d]
      /\ \A d \in DOMAIN dedup : dedup[d].batch = b =>
           dedup'[d] = [dedup[d] EXCEPT !.replicas = Greatest(dedup[d].replicas, r)]
  BY DEF SetDurableReplicaCount, RaiseReceipts, IndInv, TypeOK
<1>6. \A d \in DOMAIN dedup : dedup'[d].batch = dedup[d].batch /\ dedup'[d].count = dedup[d].count
  BY <1>5
<1>7. ReceiptsReserved'
  BY <1>1, <1>5, <1>6 DEF AppendInv, ReceiptsReserved
<1>8. ReceiptsAgree'
  <2>1. ASSUME NEW d \in DOMAIN dedup, dedup[d].batch \in DOMAIN batches
        PROVE  LET x == batches'[dedup[d].batch]
               IN  /\ x.producer # None /\ DedupKey(x.producer) = d
                   /\ x.count = dedup[d].count /\ x.status # "Pending"
                   /\ x.replicas = dedup'[d].replicas
    <3>1. LET x == batches[dedup[d].batch]
          IN  /\ x.producer # None /\ DedupKey(x.producer) = d
              /\ x.count = dedup[d].count /\ x.status # "Pending"
              /\ x.replicas = dedup[d].replicas
      BY <2>1 DEF AppendInv, ReceiptsAgree
    <3>2. CASE dedup[d].batch = b
      BY <3>1, <3>2, <1>3, <1>5
    <3>3. CASE dedup[d].batch # b
      BY ZenonT(100), <2>1, <3>1, <3>3, <1>2, <1>5
    <3> QED BY ZenonT(100), <3>2, <3>3
  <2> QED BY ZenonT(100), <2>1, <1>2, <1>5, <1>6 DEF ReceiptsAgree
<1> QED BY <1>4, <1>7, <1>8 DEF AppendInv

\* Steps that neither reserve nor acknowledge.
LEMMA QuietAppend ==
  ASSUME IndInv, AppendInv, leaderEpoch' \in Nat, ringEpoch' \in Nat,
         leaderEpoch <= leaderEpoch', ringEpoch <= ringEpoch',
         nextBatch' = nextBatch, dedup' = dedup,
         DOMAIN batches' \subseteq DOMAIN batches,
         \A k \in DOMAIN batches' :
           /\ batches'[k].first = batches[k].first /\ batches'[k].count = batches[k].count
           /\ batches'[k].leaderEpoch = batches[k].leaderEpoch
           /\ batches'[k].ringEpoch = batches[k].ringEpoch
           /\ batches'[k].producer = batches[k].producer
           /\ batches[k].status # "Pending" =>
                batches'[k].replicas = batches[k].replicas /\ batches'[k].status # "Pending",
         DOMAIN producers' = DOMAIN producers,
         \A p \in DOMAIN producers :
           producers'[p].epoch = producers[p].epoch /\ producers'[p].next = producers[p].next
  PROVE  AppendInv'
<1>1. CursorsCover' /\ ProducerOrder' /\ PlacementFenced'
  BY ZenonT(100), PlacementKept
<1>2. ReceiptsReserved' /\ ReceiptsAgree'
  BY ReceiptsKept
<1> QED BY ZenonT(100), <1>1, <1>2 DEF AppendInv

\* A failed append marks its producer's cursor and does not move it.
LEMMA FailProducerKeeps ==
  ASSUME IndInv, NEW p, producers' = FailProducer(p)
  PROVE  /\ DOMAIN producers' = DOMAIN producers
         /\ \A q \in DOMAIN producers :
              producers'[q].epoch = producers[q].epoch /\ producers'[q].next = producers[q].next
<1>1. \A q \in DOMAIN producers :
        producers[q] \in [epoch : ProducerEpochs, next : Nat, failed : BOOLEAN]
  BY DEF IndInv, TypeOK
<1> QED BY ZenonT(100), <1>1 DEF FailProducer

\* A failed append, whichever way it failed.
LEMMA FailAppend ==
  ASSUME IndInv, AppendInv, NEW b \in inFlight, FailNotWritten(b) \/ FailAmbiguous(b)
  PROVE  AppendInv'
<1>1. /\ leaderEpoch \in Nat /\ ringEpoch \in Nat
      /\ UNCHANGED <<leaderEpoch, ringEpoch, nextBatch, dedup>>
      /\ producers' = FailProducer(batches[b].producer)
  BY Numbers DEF FailNotWritten, FailAmbiguous, sequencerVars
<1>2. /\ b \in DOMAIN batches /\ batches[b] \in BatchRuntime /\ batches[b].status = "Pending"
  BY TypeFacts
<1>3. /\ DOMAIN batches' = DOMAIN batches
      /\ \A k \in DOMAIN batches : k # b => batches'[k] = batches[k]
      /\ \/ batches'[b] = batches[b]
         \/ batches'[b] = [[batches[b] EXCEPT !.status = "Aborted"] EXCEPT !.replicas = 0]
  BY <1>2, TypeFacts DEF FailNotWritten, FailAmbiguous
<1>4. \A k \in DOMAIN batches' :
        /\ batches'[k].first = batches[k].first /\ batches'[k].count = batches[k].count
        /\ batches'[k].leaderEpoch = batches[k].leaderEpoch
        /\ batches'[k].ringEpoch = batches[k].ringEpoch
        /\ batches'[k].producer = batches[k].producer
        /\ batches[k].status # "Pending" =>
             batches'[k].replicas = batches[k].replicas /\ batches'[k].status # "Pending"
  <2> TAKE k \in DOMAIN batches'
  <2>1. CASE batches'[k] = batches[k]
    BY <2>1
  <2>2. CASE k = b /\ batches'[b] = [[batches[b] EXCEPT !.status = "Aborted"] EXCEPT !.replicas = 0]
    BY <1>2, <2>2 DEF BatchRuntime
  <2> QED BY ZenonT(100), <1>3, <2>1, <2>2
<1>5. /\ leaderEpoch' \in Nat /\ ringEpoch' \in Nat
      /\ leaderEpoch <= leaderEpoch' /\ ringEpoch <= ringEpoch'
  BY <1>1
<1>6. /\ DOMAIN producers' = DOMAIN producers
      /\ \A q \in DOMAIN producers :
           producers'[q].epoch = producers[q].epoch /\ producers'[q].next = producers[q].next
  BY <1>1, FailProducerKeeps
<1> QED BY ZenonT(100), <1>1, <1>3, <1>4, <1>5, <1>6, QuietAppend

\* A group's outcome, which only decides chunks whose result is known.
LEMMA FinalizeAppend ==
  ASSUME IndInv, AppendInv, NEW t \in DOMAIN atomicGroups, NEW outcome \in Outcome,
         FinalizeAtomicGroup(t, outcome)
  PROVE  AppendInv'
<1>1. /\ leaderEpoch' \in Nat /\ ringEpoch' \in Nat
      /\ leaderEpoch <= leaderEpoch' /\ ringEpoch <= ringEpoch'
      /\ UNCHANGED <<nextBatch, dedup, producers>>
  BY Numbers DEF FinalizeAtomicGroup, sequencerVars, producerVars
<1>2. /\ DOMAIN batches' = DOMAIN batches
      /\ \A k \in DOMAIN batches : \/ batches'[k] = batches[k]
                                   \/ batches'[k] = [batches[k] EXCEPT !.status = outcome]
  BY DEF FinalizeAtomicGroup
<1>3. \A k \in DOMAIN batches' :
        /\ batches'[k].first = batches[k].first /\ batches'[k].count = batches[k].count
        /\ batches'[k].leaderEpoch = batches[k].leaderEpoch
        /\ batches'[k].ringEpoch = batches[k].ringEpoch
        /\ batches'[k].producer = batches[k].producer
        /\ batches[k].status # "Pending" =>
             batches'[k].replicas = batches[k].replicas /\ batches'[k].status # "Pending"
  <2> TAKE k \in DOMAIN batches'
  <2>1. k \in DOMAIN batches /\ batches[k] \in BatchRuntime
    BY <1>2, TypeFacts
  <2>2. outcome # "Pending"
    BY ZenonT(100) DEF Outcome
  <2>3. CASE batches'[k] = batches[k]
    BY <2>3
  <2>4. CASE batches'[k] = [batches[k] EXCEPT !.status = outcome]
    BY ZenonT(100), <2>1, <2>2, <2>4 DEF BatchRuntime
  <2> QED BY ZenonT(100), <1>2, <2>1, <2>3, <2>4
<1> QED BY <1>1, <1>2, <1>3, QuietAppend

\* Retention, which keeps a part of the index as it is.
LEMMA TruncateAppend ==
  ASSUME IndInv, AppendInv, NEW o \in 1..MaxOffset, NEW k \in 0..MaxBatches, Truncate(o, k)
  PROVE  AppendInv'
<1>1. /\ leaderEpoch' \in Nat /\ ringEpoch' \in Nat
      /\ leaderEpoch <= leaderEpoch' /\ ringEpoch <= ringEpoch'
      /\ UNCHANGED <<nextBatch, dedup, producers>>
  <2>1. UNCHANGED <<leaderEpoch, ringEpoch, nextBatch, dedup, producers>>
    BY ZenonT(100) DEF Truncate, sequencerVars, producerVars
  <2> QED BY ZenonT(100), <2>1, Numbers, SumNat
<1>2. DOMAIN batches' \subseteq DOMAIN batches /\ \A j \in DOMAIN batches' : batches'[j] = batches[j]
  <2>1. firstKey \in Nat /\ firstKey <= k /\ nextBatch \in Nat
    <3>1. k = nextBatch \/ k \in firstKey..(nextBatch - 1)
      BY ZenonT(100), TypeFacts DEF Truncate, MayTruncate, FirstRetained
    <3>2. firstKey \in Nat /\ nextBatch \in Nat /\ firstKey <= nextBatch
      BY ZenonT(100), TypeFacts
    <3> QED BY <3>1, <3>2
  <2>2. batches' = [j \in k..(nextBatch - 1) |-> batches[j]]
    BY ZenonT(100) DEF Truncate
  <2>3. k..(nextBatch - 1) \subseteq firstKey..(nextBatch - 1)
    BY <2>1
  <2> QED BY ZenonT(100), <2>2, <2>3, TypeFacts
<1> QED BY ZenonT(100), <1>1, <1>2, QuietAppend

\* Every other step leaves batches, cursors and receipts alone.
LEMMA ControlAppend ==
  ASSUME IndInv, AppendInv, UNCHANGED <<nextBatch, batches, producers, dedup>>,
         leaderEpoch' \in Nat, ringEpoch' \in Nat,
         leaderEpoch <= leaderEpoch', ringEpoch <= ringEpoch'
  PROVE  AppendInv'
BY ZenonT(100), QuietAppend

-----------------------------------------------------------------------------
\* A new partition has no batch and no receipt.
LEMMA InitAppend == Init => AppendInv
BY DEF Init, Empty, AppendInv, CursorsCover, ReceiptsReserved, ProducerOrder, ReceiptsAgree,
       PlacementFenced

\* One case for each command of the coordinator.
LEMMA NextAppend ==
  ASSUME IndInv, AppendInv, [Next]_partitionVars
  PROVE  AppendInv'
<1>1. CASE \E p \in ProducerInputs : \E g \in GroupInputs : \E n \in Counts, e \in LeaderEpochs \cup {None} :
             Reserve(p, g, n, e)
  BY <1>1, ReserveAppend
<1>2. CASE \E b \in inFlight, r \in 1..ReplicationFactor : Complete(b, r)
  BY <1>2, CompleteAppend
<1>3. CASE \E b \in inFlight : FailNotWritten(b)
  BY <1>3, FailAppend
<1>4. CASE \E b \in inFlight : FailAmbiguous(b)
  BY <1>4, FailAppend
<1>5. CASE \E b \in DOMAIN batches, r \in 1..ReplicationFactor : SetDurableReplicaCount(b, r)
  BY <1>5, SetDurableReplicaCountAppend
<1>6. CASE \E t \in DOMAIN atomicGroups, outcome \in Outcome : FinalizeAtomicGroup(t, outcome)
  BY <1>6, FinalizeAppend
<1>7. CASE \E o \in 1..MaxOffset, k \in 0..MaxBatches : Truncate(o, k)
  BY <1>7, TruncateAppend
<1>8. CASE \/ \E generation \in 1..MaxGeneration, isr \in 1..ReplicationFactor :
                UpdateReplicationPolicy(generation, isr)
           \/ \E epoch \in 1..MaxRingEpoch, ring \in Rings : Reconfigure(epoch, ring)
           \/ \E epoch \in LeaderEpochs : ObserveLeaderEpoch(epoch)
           \/ \E mode \in Modes, through \in 1..MaxOffset : WaitUntilVisible(mode, through)
           \/ UNCHANGED partitionVars
  <2>1. UNCHANGED <<nextBatch, batches, producers, dedup>>
    BY <1>8 DEF UpdateReplicationPolicy, Reconfigure, ObserveLeaderEpoch, WaitUntilVisible,
                partitionVars, sequencerVars, producerVars
  <2>2. /\ leaderEpoch' \in Nat /\ ringEpoch' \in Nat
        /\ leaderEpoch <= leaderEpoch' /\ ringEpoch <= ringEpoch'
    <3>1. leaderEpoch \in Nat /\ ringEpoch \in Nat
      BY ZenonT(100), Numbers
    <3>2. /\ \/ leaderEpoch' = leaderEpoch
             \/ \E epoch \in LeaderEpochs : epoch > leaderEpoch /\ leaderEpoch' = epoch
          /\ \/ ringEpoch' = ringEpoch
             \/ \E epoch \in 1..MaxRingEpoch : epoch > ringEpoch /\ ringEpoch' = epoch
      BY <1>8 DEF UpdateReplicationPolicy, Reconfigure, ObserveLeaderEpoch, WaitUntilVisible,
                  partitionVars, sequencerVars
    <3> QED BY <3>1, <3>2, PartitionAssumption DEF LeaderEpochs
  <2> QED BY ZenonT(100), <2>1, <2>2, ControlAppend
<1> QED BY ZenonT(100), <1>1, <1>2, <1>3, <1>4, <1>5, <1>6, <1>7, <1>8 DEF Next

\* The inductive invariant of appends holds in every reachable state.
THEOREM AppendInvariance == Spec => [](IndInv /\ AppendInv)
<1>1. (IndInv /\ AppendInv) /\ [Next]_partitionVars => (IndInv /\ AppendInv)'
  BY NextInv, NextAppend
<1> QED BY InitInv, InitAppend, <1>1, PTL DEF Spec

\* Whatever mixture of retries, failures, new epochs, ring changes and retention
\* the coordinator handled: producers' batches keep their order without covering a
\* sequence number twice, receipts name the batch they acknowledged, placement
\* follows the epochs, and every result still out can be applied.
THEOREM AppendsAlwaysConsistent == Spec => []AppendsConsistent
<1>1. IndInv /\ AppendInv => AppendsConsistent
  BY DEF AppendsConsistent, AppendInv, IndInv
<1> QED BY <1>1, AppendInvariance, PTL
=============================================================================
