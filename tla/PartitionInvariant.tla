------------------------- MODULE PartitionInvariant -------------------------
(***************************************************************************)
(* The inductive invariant of Partition, lemmas about the walk of the      *)
(* cached watermarks, and that reservations, results of appends and        *)
(* replication progress keep the invariant and what was readable, for      *)
(* every value of the constants.                                           *)
(*                                                                         *)
(* The cached watermarks are exact because of the layout of the index:     *)
(* batches lie end to end from the log start to the sequencer's next       *)
(* offset.  A cursor that stands on a batch boundary with only passable    *)
(* batches behind it therefore stops exactly at the first batch that is    *)
(* not passable, and every action either keeps passable batches passable   *)
(* and walks on, or restarts the walk at the log start.                    *)
(***************************************************************************)
EXTENDS Partition, TLAPS

\* The offset at which key k starts, in an index bs with next key `next' and
\* next offset `off'.
StartIn(bs, next, off, k) == IF k = next THEN off ELSE bs[k].first

\* The index bs of keys fk..next-1 lies end to end from offset `start' to `off'.
LayoutOf(bs, fk, next, off, start) ==
  /\ StartIn(bs, next, off, fk) = start
  /\ \A k \in fk..(next - 1) : EndOf(bs[k]) = StartIn(bs, next, off, k + 1)
  /\ \A j, k \in fk..next : j < k => StartIn(bs, next, off, j) < StartIn(bs, next, off, k)

\* Cursor c stands on a boundary and has only passable batches behind it.
OnBoundary(bs, fk, next, off, c, pass) ==
  /\ c \in Cursor
  /\ c.key \in fk..next
  /\ c.end = StartIn(bs, next, off, c.key)
  /\ \A k \in fk..(c.key - 1) : k \in pass

\* ... and cannot be moved on.
ExactIn(bs, fk, next, off, c, pass) ==
  OnBoundary(bs, fk, next, off, c, pass) /\ c.key \notin pass

Layout == LayoutOf(batches, firstKey, nextBatch, nextOffset, logStart)

CursorsExact ==
  /\ ExactIn(batches, firstKey, nextBatch, nextOffset, contiguous, ContiguousPass(batches))
  /\ ExactIn(batches, firstKey, nextBatch, nextOffset, stable, StablePass(batches))
  /\ ExactIn(batches, firstKey, nextBatch, nextOffset, replicated,
             ReplicatedPass(batches, policy.minIsr))

\* The inductive invariant.
IndInv == TypeOK /\ Layout /\ CursorsExact /\ OutstandingSettles /\ NoLostWakeup

-----------------------------------------------------------------------------
(***************************************************************************)
(* The walk.                                                               *)
(***************************************************************************)

\* A walk that starts on a boundary ends at an exact cursor, not before it.
LEMMA WalkExact ==
  ASSUME NEW fk \in Nat, NEW next \in Nat, fk <= next,
         NEW off \in Nat, NEW start \in Nat,
         NEW bs, bs \in [fk..(next - 1) -> BatchRuntime],
         LayoutOf(bs, fk, next, off, start),
         NEW pass, pass \subseteq DOMAIN bs,
         NEW c, OnBoundary(bs, fk, next, off, c, pass),
         NEW to \in c.key..next, Walk(bs, pass, c, to)
  PROVE  /\ ExactIn(bs, fk, next, off, CursorAt(bs, c, to), pass)
         /\ CursorAt(bs, c, to).end >= c.end
<1>1. c \in Cursor /\ c.key \in Nat /\ c.end \in Nat /\ c.key \in fk..next /\ to \in fk..next
      /\ c.end = StartIn(bs, next, off, c.key)
  BY DEF OnBoundary, Cursor
<1>2. EndAt(bs, c, to) = StartIn(bs, next, off, to)
  <2>1. CASE to = c.key
    BY <2>1, <1>1 DEF EndAt
  <2>2. CASE to # c.key
    <3>1. to - 1 \in fk..(next - 1) /\ (to - 1) + 1 = to
      BY <2>2, <1>1
    <3>2. EndOf(bs[to - 1]) = StartIn(bs, next, off, to)
      BY <3>1 DEF LayoutOf
    <3> QED BY <3>2, <2>2 DEF EndAt
  <2> QED BY <2>1, <2>2
<1>3. \A k \in fk..next : StartIn(bs, next, off, k) \in Nat
  BY DEF StartIn, BatchRuntime
<1>4. to \notin pass
  <2> SUFFICES ASSUME to \in pass PROVE FALSE
    OBVIOUS
  <2>1. to \in fk..(next - 1) /\ to # next
    BY <1>1
  <2>2. bs[to].first # EndAt(bs, c, to)
    BY DEF Walk
  <2> QED BY <2>1, <2>2, <1>2 DEF StartIn
<1>5. \A k \in fk..(to - 1) : k \in pass
  <2> TAKE k \in fk..(to - 1)
  <2>1. CASE k < c.key
    BY <2>1, <1>1 DEF OnBoundary
  <2>2. CASE k >= c.key
    BY <2>2, <1>1 DEF Walk
  <2> QED BY <2>1, <2>2, <1>1
<1>6. StartIn(bs, next, off, to) >= c.end
  <2>1. CASE to = c.key
    BY <2>1, <1>1, <1>3
  <2>2. CASE to # c.key
    <3>1. c.key < to
      BY <2>2, <1>1
    <3> QED BY <3>1, <1>1, <1>3 DEF LayoutOf
  <2> QED BY <2>1, <2>2
<1>7. CursorAt(bs, c, to) = [key |-> to, end |-> StartIn(bs, next, off, to)]
  BY <1>2 DEF CursorAt
<1> QED BY <1>1, <1>3, <1>4, <1>5, <1>6, <1>7 DEF ExactIn, OnBoundary, Cursor

\* advance_cached_watermarks, started on boundaries, leaves exact cursors, moves
\* none of them back, and keeps only the waiters that cannot see their offset.
LEMMA AdvanceExact ==
  ASSUME NEW fk \in Nat, NEW next \in Nat, fk <= next,
         NEW off \in Nat, NEW start \in Nat, NEW isr \in Nat,
         NEW bs, bs \in [fk..(next - 1) -> BatchRuntime],
         LayoutOf(bs, fk, next, off, start),
         NEW c, OnBoundary(bs, fk, next, off, c, ContiguousPass(bs)),
         NEW s, OnBoundary(bs, fk, next, off, s, StablePass(bs)),
         NEW r, OnBoundary(bs, fk, next, off, r, ReplicatedPass(bs, isr)),
         AdvanceWatermarks(bs, next, isr, c, s, r)
  PROVE  /\ ExactIn(bs, fk, next, off, contiguous', ContiguousPass(bs))
         /\ ExactIn(bs, fk, next, off, stable', StablePass(bs))
         /\ ExactIn(bs, fk, next, off, replicated', ReplicatedPass(bs, isr))
         /\ stable'.end >= s.end
         /\ waiters' \subseteq waiters
         /\ \A w \in waiters' : w.through > Visible(w.mode, stable', replicated')
<1>1. PICK kc \in c.key..next, ks \in s.key..next, kr \in r.key..next :
        /\ Walk(bs, ContiguousPass(bs), c, kc)
        /\ Walk(bs, StablePass(bs), s, ks)
        /\ Walk(bs, ReplicatedPass(bs, isr), r, kr)
        /\ contiguous' = CursorAt(bs, c, kc)
        /\ stable' = CursorAt(bs, s, ks)
        /\ replicated' = CursorAt(bs, r, kr)
        /\ NotifyWaiters(stable', replicated')
  BY DEF AdvanceWatermarks
<1>2. /\ ContiguousPass(bs) \subseteq DOMAIN bs
      /\ StablePass(bs) \subseteq DOMAIN bs
      /\ ReplicatedPass(bs, isr) \subseteq DOMAIN bs
  BY DEF ContiguousPass, StablePass, ReplicatedPass
<1>3. ExactIn(bs, fk, next, off, contiguous', ContiguousPass(bs))
  <2> HIDE DEF ContiguousPass
  <2> QED BY ZenonT(100), <1>1, <1>2, WalkExact
<1>4. ExactIn(bs, fk, next, off, stable', StablePass(bs)) /\ stable'.end >= s.end
  BY ZenonT(100), <1>1, <1>2, WalkExact
<1>5. ExactIn(bs, fk, next, off, replicated', ReplicatedPass(bs, isr))
  BY ZenonT(100), <1>1, <1>2, WalkExact
<1>6. /\ waiters' \subseteq waiters
      /\ \A w \in waiters' : w.through > Visible(w.mode, stable', replicated')
  BY <1>1 DEF NotifyWaiters
<1> QED BY <1>3, <1>4, <1>5, <1>6

\* Index cs places its batches as bs does.
SameShape(bs, cs) ==
  \A k \in DOMAIN bs : cs[k].first = bs[k].first /\ cs[k].count = bs[k].count

SameStarts(bs, cs, fk, next, off) ==
  \A k \in fk..next : StartIn(cs, next, off, k) = StartIn(bs, next, off, k)

\* A change of statuses and replica counts leaves the layout alone.
LEMMA SameLayout ==
  ASSUME NEW fk \in Nat, NEW next \in Nat, fk <= next, NEW off \in Nat, NEW start \in Nat,
         NEW bs, bs \in [fk..(next - 1) -> BatchRuntime],
         NEW cs, cs \in [fk..(next - 1) -> BatchRuntime],
         SameShape(bs, cs),
         LayoutOf(bs, fk, next, off, start)
  PROVE  LayoutOf(cs, fk, next, off, start) /\ SameStarts(bs, cs, fk, next, off)
<1>1. \A k \in fk..next : StartIn(cs, next, off, k) = StartIn(bs, next, off, k)
  BY DEF StartIn, SameShape
<1>2. \A k \in fk..(next - 1) : EndOf(cs[k]) = EndOf(bs[k])
  BY DEF EndOf, SameShape
<1>3. fk \in fk..next /\ \A k \in fk..(next - 1) : k + 1 \in fk..next
  OBVIOUS
<1> QED BY <1>1, <1>2, <1>3 DEF LayoutOf, SameStarts

\* What the watermark part of the invariant says of the next state, and that the
\* last stable offset does not move back.
WatermarksNext ==
  /\ Layout' /\ CursorsExact' /\ NoLostWakeup'
  /\ stable'.end >= stable.end
  /\ waiters' \subseteq waiters
  /\ contiguous' \in Cursor /\ stable' \in Cursor /\ replicated' \in Cursor

\* An action that only makes batches passable and then advances the cursors.
LEMMA AdvanceStep ==
  ASSUME IndInv,
         batches' \in [firstKey..(nextBatch - 1) -> BatchRuntime],
         SameShape(batches, batches'),
         ContiguousPass(batches) \subseteq ContiguousPass(batches'),
         StablePass(batches) \subseteq StablePass(batches'),
         ReplicatedPass(batches, policy.minIsr) \subseteq ReplicatedPass(batches', policy.minIsr),
         AdvanceCachedWatermarks(batches'),
         UNCHANGED <<nextBatch, nextOffset, firstKey, logStart, policy>>
  PROVE  WatermarksNext
<1>1. /\ firstKey \in Nat /\ nextBatch \in Nat /\ firstKey <= nextBatch
      /\ nextOffset \in Nat /\ logStart \in Nat /\ policy.minIsr \in Nat
      /\ batches \in [firstKey..(nextBatch - 1) -> BatchRuntime]
  BY DEF IndInv, TypeOK
<1>2. /\ LayoutOf(batches', firstKey, nextBatch, nextOffset, logStart)
      /\ SameStarts(batches, batches', firstKey, nextBatch, nextOffset)
  <2>1. LayoutOf(batches, firstKey, nextBatch, nextOffset, logStart)
    BY DEF IndInv, Layout
  <2> QED BY <1>1, <2>1, SameLayout
<1>3. /\ OnBoundary(batches', firstKey, nextBatch, nextOffset, contiguous, ContiguousPass(batches'))
      /\ OnBoundary(batches', firstKey, nextBatch, nextOffset, stable, StablePass(batches'))
      /\ OnBoundary(batches', firstKey, nextBatch, nextOffset, replicated,
                    ReplicatedPass(batches', policy.minIsr))
  BY ZenonT(100), <1>1, <1>2 DEF IndInv, CursorsExact, ExactIn, OnBoundary, SameStarts
<1>4. AdvanceWatermarks(batches', nextBatch, policy.minIsr, contiguous, stable, replicated)
  BY DEF AdvanceCachedWatermarks
<1>5. /\ ExactIn(batches', firstKey, nextBatch, nextOffset, contiguous', ContiguousPass(batches'))
      /\ ExactIn(batches', firstKey, nextBatch, nextOffset, stable', StablePass(batches'))
      /\ ExactIn(batches', firstKey, nextBatch, nextOffset, replicated',
                 ReplicatedPass(batches', policy.minIsr))
      /\ stable'.end >= stable.end
      /\ waiters' \subseteq waiters
      /\ \A w \in waiters' : w.through > Visible(w.mode, stable', replicated')
  BY ZenonT(100), <1>1, <1>2, <1>3, <1>4, AdvanceExact
<1>6. Layout'
  BY <1>2 DEF Layout
<1>7. CursorsExact'
  BY <1>5 DEF CursorsExact
<1>8. NoLostWakeup'
  BY <1>5 DEF NoLostWakeup
<1>9. contiguous' \in Cursor /\ stable' \in Cursor /\ replicated' \in Cursor
  BY <1>5 DEF ExactIn, OnBoundary
<1> QED BY <1>5, <1>6, <1>7, <1>8, <1>9 DEF WatermarksNext

\* A restart of the cursors at a log start that lies on a boundary.
LEMMA ResetStep ==
  ASSUME IndInv,
         NEW key \in Nat, key <= nextBatch, NEW start \in Nat, NEW isr \in Nat,
         batches' \in [key..(nextBatch - 1) -> BatchRuntime],
         LayoutOf(batches', key, nextBatch, nextOffset, start),
         ResetCachedWatermarks(batches', key, start, isr),
         firstKey' = key, logStart' = start, policy'.minIsr = isr,
         UNCHANGED <<nextBatch, nextOffset>>
  PROVE  /\ Layout' /\ CursorsExact' /\ NoLostWakeup'
         /\ waiters' \subseteq waiters
         /\ contiguous' \in Cursor /\ stable' \in Cursor /\ replicated' \in Cursor
<1> DEFINE base == [key |-> key, end |-> start]
<1>1. nextBatch \in Nat /\ nextOffset \in Nat
  BY DEF IndInv, TypeOK
<1>2. \A pass : OnBoundary(batches', key, nextBatch, nextOffset, base, pass)
  BY <1>1 DEF OnBoundary, Cursor, LayoutOf
<1>3. AdvanceWatermarks(batches', nextBatch, isr, base, base, base)
  BY DEF ResetCachedWatermarks
<1> HIDE DEF base
<1>5. /\ ExactIn(batches', key, nextBatch, nextOffset, contiguous', ContiguousPass(batches'))
      /\ ExactIn(batches', key, nextBatch, nextOffset, stable', StablePass(batches'))
      /\ ExactIn(batches', key, nextBatch, nextOffset, replicated', ReplicatedPass(batches', isr))
      /\ waiters' \subseteq waiters
      /\ \A w \in waiters' : w.through > Visible(w.mode, stable', replicated')
  BY ZenonT(100), <1>1, <1>2, <1>3, AdvanceExact
<1>6. Layout'
  BY DEF Layout
<1>7. CursorsExact'
  BY <1>5 DEF CursorsExact
<1>8. NoLostWakeup'
  BY <1>5 DEF NoLostWakeup
<1>9. contiguous' \in Cursor /\ stable' \in Cursor /\ replicated' \in Cursor
  BY <1>5 DEF ExactIn, OnBoundary
<1> QED BY <1>5, <1>6, <1>7, <1>8, <1>9

-----------------------------------------------------------------------------
(***************************************************************************)
(* The actions.                                                            *)
(***************************************************************************)

\* A new partition satisfies the invariant.
LEMMA InitInv == Init => IndInv
<1> SUFFICES ASSUME Init PROVE IndInv
  OBVIOUS
<1>1. batches \in [firstKey..(nextBatch - 1) -> BatchRuntime] /\ DOMAIN batches = {}
  BY DEF Init, Empty
<1>2. TypeOK
  BY <1>1, PartitionAssumption DEF Init, TypeOK, Empty, Cursor, LeaderEpochs
<1>3. Layout
  BY DEF Init, Layout, LayoutOf, StartIn
<1>4. CursorsExact
  BY <1>1 DEF Init, CursorsExact, ExactIn, OnBoundary, StartIn, Cursor,
              ContiguousPass, StablePass, ReplicatedPass
<1>5. OutstandingSettles /\ NoLostWakeup
  BY DEF Init, OutstandingSettles, NoLostWakeup
<1> QED BY <1>2, <1>3, <1>4, <1>5 DEF IndInv

\* Decided batches are the ones below the last stable offset.
LEMMA BelowStableDecided ==
  ASSUME IndInv
  PROVE  /\ \A k \in DOMAIN batches :
              EndOf(batches[k]) <= stable.end => batches[k].status \in Outcome
         /\ \A k \in DOMAIN batches :
              batches[k].status \notin Outcome => k >= stable.key
<1>1. /\ firstKey \in Nat /\ nextBatch \in Nat /\ firstKey <= nextBatch /\ nextOffset \in Nat
      /\ batches \in [firstKey..(nextBatch - 1) -> BatchRuntime]
      /\ stable.key \in firstKey..nextBatch
      /\ stable.end = StartIn(batches, nextBatch, nextOffset, stable.key)
      /\ \A k \in firstKey..(stable.key - 1) : k \in StablePass(batches)
  BY DEF IndInv, TypeOK, CursorsExact, ExactIn, OnBoundary
<1>2. ASSUME NEW k \in DOMAIN batches, batches[k].status \notin Outcome
      PROVE  k >= stable.key
  BY <1>1, <1>2 DEF StablePass
<1>3. ASSUME NEW k \in DOMAIN batches, k >= stable.key
      PROVE  EndOf(batches[k]) > stable.end
  <2>1. /\ k \in firstKey..nextBatch /\ k + 1 \in firstKey..nextBatch
        /\ \A j \in firstKey..nextBatch : StartIn(batches, nextBatch, nextOffset, j) \in Nat
    BY <1>1 DEF StartIn, BatchRuntime
  <2>2. EndOf(batches[k]) = StartIn(batches, nextBatch, nextOffset, k + 1)
    BY <1>1 DEF IndInv, Layout, LayoutOf
  <2>3. stable.key < k + 1
    BY <1>1, <1>3
  <2>4. StartIn(batches, nextBatch, nextOffset, stable.key)
          < StartIn(batches, nextBatch, nextOffset, k + 1)
    BY <1>1, <2>1, <2>3 DEF IndInv, Layout, LayoutOf
  <2> QED BY <1>1, <2>1, <2>2, <2>4
<1>4. ASSUME NEW k \in DOMAIN batches, EndOf(batches[k]) <= stable.end
      PROVE  batches[k].status \in Outcome
  <2>1. EndOf(batches[k]) \in Nat /\ stable.end \in Nat
    <3>1. batches[k] \in BatchRuntime
      BY <1>1
    <3>2. EndOf(batches[k]) \in Nat
      BY <3>1, PartitionAssumption DEF EndOf, BatchRuntime, Counts
    <3>3. stable.end \in Nat
      BY DEF IndInv, TypeOK, Cursor
    <3> QED BY <3>2, <3>3
  <2>2. ~(k >= stable.key)
    BY <1>3, <1>4, <2>1
  <2> QED BY <1>2, <2>2
<1> QED BY <1>2, <1>4

\* Facts about the types that most steps need.
LEMMA TypeFacts ==
  ASSUME IndInv
  PROVE  /\ firstKey \in Nat /\ nextBatch \in Nat /\ firstKey <= nextBatch
         /\ nextOffset \in Nat /\ logStart \in Nat /\ stable.end \in Nat
         /\ batches \in [firstKey..(nextBatch - 1) -> BatchRuntime]
         /\ DOMAIN batches = firstKey..(nextBatch - 1)
         /\ \A k \in DOMAIN batches : batches[k] \in BatchRuntime /\ batches[k].replicas \in Nat
         /\ \A b \in inFlight : b \in DOMAIN batches /\ batches[b].status = "Pending"
<1>1. /\ firstKey \in Nat /\ nextBatch \in Nat /\ firstKey <= nextBatch
      /\ nextOffset \in Nat /\ logStart \in Nat /\ stable.end \in Nat
      /\ batches \in [firstKey..(nextBatch - 1) -> BatchRuntime]
  BY DEF IndInv, TypeOK, Cursor
<1>2. /\ DOMAIN batches = firstKey..(nextBatch - 1)
      /\ \A k \in DOMAIN batches : batches[k] \in BatchRuntime
  BY <1>1
<1>3. \A k \in DOMAIN batches : batches[k].replicas \in Nat
  BY <1>2 DEF BatchRuntime
<1>4. \A b \in inFlight : b \in DOMAIN batches /\ batches[b].status = "Pending"
  BY DEF IndInv, OutstandingSettles
<1> QED BY <1>1, <1>2, <1>3, <1>4

\* A step that keeps the log start and every decided batch keeps stable history.
LEMMA StableStepKept ==
  ASSUME IndInv, UNCHANGED logStart, stable'.end >= stable.end,
         DOMAIN batches' = DOMAIN batches,
         \A k \in DOMAIN batches : batches[k].status \in Outcome =>
           [batches'[k] EXCEPT !.replicas = batches[k].replicas] = batches[k]
  PROVE  StableStep
<1>1. logStart \in Nat
  BY TypeFacts
<1> QED BY <1>1, BelowStableDecided DEF StableStep

\* A step that leaves the index and the watermarks alone.
LEMMA QuietStep ==
  ASSUME IndInv, TypeOK', inFlight' \subseteq inFlight, waiters' = waiters,
         UNCHANGED <<nextBatch, nextOffset, firstKey, batches, logStart, contiguous,
                     stable, replicated, policy>>
  PROVE  IndInv' /\ StableStep
<1>1. Layout'
  BY DEF IndInv, Layout
<1>2. CursorsExact'
  BY DEF IndInv, CursorsExact
<1>3. OutstandingSettles' /\ NoLostWakeup'
  BY DEF IndInv, OutstandingSettles, NoLostWakeup
<1>4. StableStep
  <2>1. \A k \in DOMAIN batches : [batches'[k] EXCEPT !.replicas = batches[k].replicas] = batches[k]
    BY TypeFacts DEF BatchRuntime
  <2> QED BY <2>1, TypeFacts, StableStepKept
<1> QED BY <1>1, <1>2, <1>3, <1>4 DEF IndInv

-----------------------------------------------------------------------------
\* A reservation adds a Pending batch at the end of the log and moves no cursor.
LEMMA ReserveInv ==
  ASSUME IndInv, NEW p \in ProducerInputs, NEW g \in GroupInputs, NEW n \in Counts,
         NEW e \in LeaderEpochs \cup {None}, Reserve(p, g, n, e)
  PROVE  IndInv' /\ StableStep
<1> DEFINE b == [first |-> nextOffset, count |-> n,
        lane |-> LaneOf(virtualLanes, nextBatch), ringEpoch |-> ringEpoch,
        leaderEpoch |-> AdmittedEpoch(e), status |-> "Pending", replicas |-> 0,
        producer |-> p, group |-> g]
<1>1. /\ firstKey \in Nat /\ nextBatch \in Nat /\ firstKey <= nextBatch
      /\ nextOffset \in Nat /\ logStart \in Nat /\ n \in Nat /\ n > 0
      /\ batches \in [firstKey..(nextBatch - 1) -> BatchRuntime]
      /\ nextBatch' = nextBatch + 1 /\ nextOffset' = nextOffset + n
      /\ batches' = Insert(batches, nextBatch, b)
      /\ UNCHANGED <<firstKey, logStart, contiguous, stable, replicated, policy, waiters>>
  <2>1. n \in Nat /\ n > 0
    BY PartitionAssumption DEF Counts
  <2>2. /\ nextBatch' = nextBatch + 1 /\ nextOffset' = nextOffset + n
        /\ batches' = Insert(batches, nextBatch, b)
        /\ UNCHANGED <<firstKey, logStart, contiguous, stable, replicated, policy, waiters>>
    BY ZenonT(100) DEF Reserve, watermarkVars
  <2> HIDE DEF b
  <2> QED BY ZenonT(100), <2>1, <2>2, TypeFacts
<1>2. /\ p \in ProducerIdentity \cup {None}
      /\ g \in GroupIdentity \cup {None}
  BY PartitionAssumption DEF ProducerInputs, GroupInputs, ProducerIdentity, GroupIdentity
<1>3. AdmittedEpoch(e) \in LeaderEpochs
  BY DEF AdmittedEpoch, IndInv, TypeOK
<1>4. LaneOf(virtualLanes, nextBatch) \in Lanes
  <2>1. virtualLanes \in Seq(Lanes) /\ Len(virtualLanes) \in Nat /\ Len(virtualLanes) > 0
    BY DEF IndInv, TypeOK
  <2>2. nextBatch % Len(virtualLanes) \in 0..(Len(virtualLanes) - 1)
    BY <1>1, <2>1
  <2>3. (nextBatch % Len(virtualLanes)) + 1 \in 1..Len(virtualLanes)
    BY <2>1, <2>2
  <2> QED BY <2>1, <2>3 DEF LaneOf
<1>5. b \in BatchRuntime
  BY <1>1, <1>2, <1>3, <1>4 DEF BatchRuntime, Status, IndInv, TypeOK
<1> HIDE DEF b
<1>6. /\ batches' \in [firstKey..nextBatch -> BatchRuntime]
      /\ batches'[nextBatch] = b
      /\ \A k \in firstKey..(nextBatch - 1) : batches'[k] = batches[k]
  BY <1>1, <1>5 DEF Insert
<1>7. b.first = nextOffset /\ b.count = n /\ b.status = "Pending"
  BY DEF b
<1> DEFINE SameStartsBelow == \A k \in firstKey..nextBatch :
  StartIn(batches', nextBatch', nextOffset', k) = StartIn(batches, nextBatch, nextOffset, k)
<1>8. TypeOK'
  <2>1. /\ DOMAIN atomicGroups' \subseteq Txns
        /\ \A t \in DOMAIN atomicGroups' : atomicGroups'[t] \in
             [state : Outcome \cup {"Unresolved"}, ids : Seq(Nat) \ {<< >>}]
    <3>1. CASE g = None
      BY <3>1 DEF Reserve, RegisterChunk, IndInv, TypeOK
    <3>2. CASE g # None
      <4>1. g.txn \in Txns
        BY <1>2, <3>2 DEF GroupIdentity
      <4>2. ASSUME g.txn \in DOMAIN atomicGroups
            PROVE  Append(atomicGroups[g.txn].ids, nextBatch) \in Seq(Nat) \ {<< >>}
        <5>1. atomicGroups[g.txn].ids \in Seq(Nat)
          BY <4>2 DEF IndInv, TypeOK
        <5> QED BY SMTT(100), <5>1, <1>1
      <4>3. <<nextBatch>> \in Seq(Nat) \ {<< >>}
        BY <1>1
      <4>4. atomicGroups' = RegisterChunk(atomicGroups, g, nextBatch)
        BY DEF Reserve
      <4>5. /\ DOMAIN atomicGroups \subseteq Txns
            /\ \A t \in DOMAIN atomicGroups : atomicGroups[t] \in
                 [state : Outcome \cup {"Unresolved"}, ids : Seq(Nat) \ {<< >>}]
        BY ZenonT(100) DEF IndInv, TypeOK
      <4> QED BY SMTT(100), <3>2, <4>1, <4>2, <4>3, <4>4, <4>5 DEF RegisterChunk, Insert
    <3> QED BY ZenonT(100), <3>1, <3>2
  <2>2. /\ DOMAIN producers' \subseteq Producers
        /\ \A q \in DOMAIN producers' :
             producers'[q] \in [epoch : ProducerEpochs, next : Nat, failed : BOOLEAN]
    <3>1. CASE p = None
      <4>1. producers' = producers
        BY <3>1, ZenonT(100) DEF Reserve, AdvanceProducer
      <4> QED BY <4>1, ZenonT(100) DEF IndInv, TypeOK
    <3>2. CASE p # None
      <4>1. p.id \in Producers /\ p.epoch \in ProducerEpochs /\ p.seq + n \in Nat
        BY <1>1, <1>2, <3>2 DEF ProducerIdentity
      <4>2. producers' = AdvanceProducer(producers, p, n)
        BY DEF Reserve
      <4> QED BY <3>2, <4>1, <4>2 DEF AdvanceProducer, Insert, IndInv, TypeOK
    <3> QED BY ZenonT(100), <3>1, <3>2
  <2>3. batches' \in [firstKey'..(nextBatch' - 1) -> BatchRuntime] /\ firstKey' \in 0..nextBatch'
    BY <1>1, <1>6
  <2>4. inFlight' \subseteq Nat /\ nextOffset' \in Nat /\ nextBatch' \in Nat
    <3>1. inFlight \subseteq Nat /\ inFlight' = inFlight \cup {nextBatch}
      BY ZenonT(100) DEF Reserve, IndInv, TypeOK
    <3> QED BY SMTT(100), <1>1, <3>1
  <2>5. leaderEpoch' \in LeaderEpochs
    BY <1>3 DEF Reserve
  <2>6. UNCHANGED <<ringEpoch, virtualLanes, logStart, contiguous, stable, replicated,
                    policy, finalizedGroups, dedup, waiters>>
    BY DEF Reserve, watermarkVars
  <2> QED BY ZenonT(100), <2>1, <2>2, <2>3, <2>4, <2>5, <2>6 DEF IndInv, TypeOK
<1>9. Layout' /\ SameStartsBelow
  <2>1. \A k \in firstKey..nextBatch :
          StartIn(batches', nextBatch', nextOffset', k) = StartIn(batches, nextBatch, nextOffset, k)
    BY <1>1, <1>6, <1>7 DEF StartIn
  <2>2. StartIn(batches', nextBatch', nextOffset', nextBatch + 1) = nextOffset + n
    BY <1>1 DEF StartIn
  <2>3. \A k \in firstKey..nextBatch :
          EndOf(batches'[k]) = StartIn(batches', nextBatch', nextOffset', k + 1)
    <3> TAKE k \in firstKey..nextBatch
    <3>1. CASE k = nextBatch
      BY <3>1, <2>2, <1>6, <1>7 DEF EndOf
    <3>2. CASE k # nextBatch
      <4>1. k \in firstKey..(nextBatch - 1) /\ k + 1 \in firstKey..nextBatch
        BY <3>2, <1>1
      <4>2. EndOf(batches[k]) = StartIn(batches, nextBatch, nextOffset, k + 1)
        BY <4>1 DEF IndInv, Layout, LayoutOf
      <4> QED BY <4>1, <4>2, <1>6, <2>1
    <3> QED BY <3>1, <3>2
  <2>4. \A j, k \in firstKey..nextBatch + 1 : j < k =>
          StartIn(batches', nextBatch', nextOffset', j) < StartIn(batches', nextBatch', nextOffset', k)
    <3> TAKE j, k \in firstKey..nextBatch + 1
    <3> HAVE j < k
    <3>1. \A i \in firstKey..nextBatch :
            /\ StartIn(batches, nextBatch, nextOffset, i) \in Nat
            /\ StartIn(batches, nextBatch, nextOffset, i) <= nextOffset
      <4> TAKE i \in firstKey..nextBatch
      <4>1. CASE i = nextBatch
        BY <4>1, <1>1 DEF StartIn
      <4>2. CASE i # nextBatch
        <5>1. i < nextBatch /\ nextBatch \in firstKey..nextBatch
          BY <4>2, <1>1
        <5>2. StartIn(batches, nextBatch, nextOffset, i)
                < StartIn(batches, nextBatch, nextOffset, nextBatch)
          BY <5>1 DEF IndInv, Layout, LayoutOf
        <5>3. StartIn(batches, nextBatch, nextOffset, nextBatch) = nextOffset
          BY DEF StartIn
        <5>4. StartIn(batches, nextBatch, nextOffset, i) \in Nat
          BY <4>2, <1>1 DEF StartIn, BatchRuntime
        <5> QED BY <5>2, <5>3, <5>4, <1>1
      <4> QED BY <4>1, <4>2
    <3>2. CASE k = nextBatch + 1
      <4>1. j \in firstKey..nextBatch
        BY <3>2, <1>1
      <4> QED BY <4>1, <3>1, <3>2, <2>1, <2>2, <1>1
    <3>3. CASE k # nextBatch + 1
      <4>1. j \in firstKey..nextBatch /\ k \in firstKey..nextBatch
        BY <3>3, <1>1
      <4> QED BY <4>1, <2>1 DEF IndInv, Layout, LayoutOf
    <3> QED BY <3>2, <3>3
  <2>5. StartIn(batches', nextBatch', nextOffset', firstKey) = logStart
    BY <2>1, <1>1 DEF IndInv, Layout, LayoutOf
  <2>6. nextBatch' - 1 = nextBatch /\ nextBatch' = nextBatch + 1 /\ firstKey' = firstKey
        /\ logStart' = logStart
    BY <1>1
  <2>7. Layout'
    BY <2>3, <2>4, <2>5, <2>6 DEF Layout, LayoutOf
  <2> QED BY <2>1, <2>7
<1>10. CursorsExact'
  <2>1. /\ DOMAIN batches' = DOMAIN batches \cup {nextBatch}
        /\ \A k \in DOMAIN batches : batches'[k] = batches[k]
        /\ batches'[nextBatch].status = "Pending"
    BY <1>1, <1>6, <1>7
  <2>2. ContiguousPass(batches') = ContiguousPass(batches)
    BY ONLY <2>1 DEF ContiguousPass
  <2>3. StablePass(batches') = StablePass(batches)
    BY ONLY <2>1 DEF StablePass, Outcome
  <2>4. ReplicatedPass(batches', policy.minIsr) = ReplicatedPass(batches, policy.minIsr)
    BY ONLY <2>1 DEF ReplicatedPass
  <2>5. ASSUME NEW c, NEW pass,
               ExactIn(batches, firstKey, nextBatch, nextOffset, c, pass)
        PROVE  ExactIn(batches', firstKey, nextBatch', nextOffset', c, pass)
    BY <2>5, <1>1, <1>9 DEF ExactIn, OnBoundary
  <2> QED BY <2>2, <2>3, <2>4, <2>5, <1>1 DEF IndInv, CursorsExact
<1>11. OutstandingSettles'
  <2>1. inFlight' = inFlight \cup {nextBatch}
    BY DEF Reserve
  <2>2. \A k \in inFlight : k \in DOMAIN batches /\ batches[k].status = "Pending"
    BY DEF IndInv, OutstandingSettles
  <2>3. \A k \in DOMAIN batches : k \in DOMAIN batches' /\ batches'[k] = batches[k]
    BY <1>1, <1>6
  <2>4. nextBatch \in DOMAIN batches' /\ batches'[nextBatch].status = "Pending"
    BY <1>1, <1>6, <1>7
  <2> QED BY ZenonT(100), <2>1, <2>2, <2>3, <2>4 DEF OutstandingSettles
<1>12. NoLostWakeup'
  BY <1>1 DEF NoLostWakeup, IndInv
<1>13. StableStep
  <2>1. stable.end \in Nat /\ logStart \in Nat
    BY DEF IndInv, TypeOK, Cursor
  <2>2. \A k \in DOMAIN batches :
          /\ k \in DOMAIN batches' /\ batches'[k] = batches[k] /\ batches[k] \in BatchRuntime
          /\ [batches'[k] EXCEPT !.replicas = batches[k].replicas] = batches[k]
    BY SMTT(100), <1>1, <1>6 DEF BatchRuntime
  <2> QED BY <2>1, <2>2, <1>1 DEF StableStep
<1> QED BY ZenonT(100), <1>8, <1>9, <1>10, <1>11, <1>12, <1>13 DEF IndInv

\* A batch that is still Pending may take any outcome: this keeps types, shape
\* and passable batches, whatever status and replica count it gets.
LEMMA SettleBatch ==
  ASSUME IndInv, NEW b \in DOMAIN batches, batches[b].status = "Pending",
         NEW st \in Status, NEW r \in Nat,
         batches' = [batches EXCEPT ![b].status = st, ![b].replicas = r]
  PROVE  /\ batches' \in [firstKey..(nextBatch - 1) -> BatchRuntime]
         /\ SameShape(batches, batches')
         /\ ContiguousPass(batches) \subseteq ContiguousPass(batches')
         /\ StablePass(batches) \subseteq StablePass(batches')
         /\ ReplicatedPass(batches, policy.minIsr) \subseteq ReplicatedPass(batches', policy.minIsr)
         /\ \A k \in DOMAIN batches : k # b => batches'[k] = batches[k]
         /\ \A k \in DOMAIN batches : batches[k].status \in Outcome =>
              [batches'[k] EXCEPT !.replicas = batches[k].replicas] = batches[k]
<1>1. /\ batches \in [firstKey..(nextBatch - 1) -> BatchRuntime]
      /\ \A k \in DOMAIN batches : batches[k] \in BatchRuntime
  BY TypeFacts
<1>2. /\ DOMAIN batches' = DOMAIN batches
      /\ batches'[b] = [[batches[b] EXCEPT !.status = st] EXCEPT !.replicas = r]
      /\ \A k \in DOMAIN batches : k # b => batches'[k] = batches[k]
  BY <1>1
<1>3. /\ batches'[b] \in BatchRuntime /\ batches'[b].first = batches[b].first
      /\ batches'[b].count = batches[b].count
  BY <1>1, <1>2 DEF BatchRuntime
<1>4. batches' \in [firstKey..(nextBatch - 1) -> BatchRuntime]
  BY <1>1, <1>2, <1>3
<1>5. SameShape(batches, batches')
  BY <1>2, <1>3 DEF SameShape
<1>6. /\ ContiguousPass(batches) \subseteq ContiguousPass(batches')
      /\ StablePass(batches) \subseteq StablePass(batches')
      /\ ReplicatedPass(batches, policy.minIsr) \subseteq ReplicatedPass(batches', policy.minIsr)
  BY <1>2 DEF ContiguousPass, StablePass, ReplicatedPass, Outcome
<1>7. \A k \in DOMAIN batches : batches[k].status \in Outcome =>
        [batches'[k] EXCEPT !.replicas = batches[k].replicas] = batches[k]
  <2> TAKE k \in DOMAIN batches
  <2> HAVE batches[k].status \in Outcome
  <2>1. k # b /\ batches'[k] = batches[k]
    BY <1>2 DEF Outcome
  <2> QED BY <2>1, <1>1 DEF BatchRuntime
<1> QED BY ZenonT(100), <1>2, <1>4, <1>5, <1>6, <1>7

\* complete keeps the invariant and stable history.
LEMMA CompleteInv ==
  ASSUME IndInv, NEW b \in inFlight, NEW r \in 1..ReplicationFactor, Complete(b, r)
  PROVE  IndInv' /\ StableStep
<1> DEFINE st == SettledStatus(b)
           rs == Greatest(batches[b].replicas, r)
<1>1. b \in DOMAIN batches /\ batches[b].status = "Pending" /\ batches[b].replicas \in Nat
      /\ b \in Nat /\ batches[b] \in BatchRuntime
  BY TypeFacts
<1>2. st \in Status /\ rs \in Nat
  BY <1>1 DEF SettledStatus, Status, Greatest
<1>3. batches' = [batches EXCEPT ![b].status = st, ![b].replicas = rs]
  BY SMTT(100), <1>1, TypeFacts DEF Complete, BatchRuntime
<1> HIDE DEF st, rs
<1>4. /\ batches' \in [firstKey..(nextBatch - 1) -> BatchRuntime]
      /\ SameShape(batches, batches')
      /\ ContiguousPass(batches) \subseteq ContiguousPass(batches')
      /\ StablePass(batches) \subseteq StablePass(batches')
      /\ ReplicatedPass(batches, policy.minIsr) \subseteq ReplicatedPass(batches', policy.minIsr)
      /\ \A k \in DOMAIN batches : k # b => batches'[k] = batches[k]
      /\ \A k \in DOMAIN batches : batches[k].status \in Outcome =>
           [batches'[k] EXCEPT !.replicas = batches[k].replicas] = batches[k]
  BY ZenonT(100), <1>1, <1>2, <1>3, SettleBatch
<1>5. /\ UNCHANGED <<ringEpoch, virtualLanes, leaderEpoch, nextBatch, nextOffset, firstKey,
                     logStart, policy, atomicGroups, finalizedGroups, producers>>
      /\ AdvanceCachedWatermarks(batches')
      /\ inFlight' = inFlight \ {b}
  BY DEF Complete, sequencerVars, groupVars
<1>6. WatermarksNext
  BY <1>4, <1>5, AdvanceStep
<1>7. \A d \in DOMAIN dedup' : dedup'[d] \in [count : Counts, batch : Nat, replicas : Nat]
  <2>1. \A d \in DOMAIN dedup : dedup[d] \in [count : Counts, batch : Nat, replicas : Nat]
    BY DEF IndInv, TypeOK
  <2>2. batches[b].count \in Counts /\ batches'[b].replicas \in Nat
    BY <1>1, <1>4, TypeFacts DEF BatchRuntime
  <2>3. dedup' = IF batches[b].producer = None THEN dedup
                 ELSE Insert(dedup, DedupKey(batches[b].producer),
                             [count |-> batches[b].count, batch |-> b,
                              replicas |-> batches'[b].replicas])
    BY DEF Complete
  <2> QED BY <1>1, <2>1, <2>2, <2>3 DEF Insert
<1>8. TypeOK'
  <2>1. waiters' \subseteq [mode : Modes, through : Nat] /\ inFlight' \subseteq Nat
    BY <1>5, <1>6 DEF WatermarksNext, IndInv, TypeOK
  <2>2. contiguous' \in Cursor /\ stable' \in Cursor /\ replicated' \in Cursor
    BY <1>6 DEF WatermarksNext
  <2> QED BY ZenonT(100), <1>4, <1>5, <1>7, <2>1, <2>2 DEF IndInv, TypeOK
<1>9. OutstandingSettles'
  <2>1. DOMAIN batches' = DOMAIN batches
    BY <1>4, TypeFacts
  <2> QED BY <1>4, <1>5, <2>1, TypeFacts DEF OutstandingSettles
<1>10. StableStep
  <2>1. DOMAIN batches' = DOMAIN batches
    BY <1>4, TypeFacts
  <2> QED BY ZenonT(100), <1>4, <1>5, <1>6, <2>1, StableStepKept DEF WatermarksNext
<1> QED BY <1>6, <1>8, <1>9, <1>10 DEF IndInv, WatermarksNext

\* A sequence of two ids or more is not empty without its last.
LEMMA FrontType ==
  ASSUME NEW s \in Seq(Nat), Len(s) # 0, Len(s) # 1
  PROVE  SubSeq(s, 1, Len(s) - 1) \in Seq(Nat) \ {<< >>}
<1> DEFINE n == Len(s)
           front == SubSeq(s, 1, n - 1)
<1>1. n \in Nat /\ n > 1
  <2>1. n \in Nat /\ n # 0 /\ n # 1
    OBVIOUS
  <2> HIDE DEF n
  <2> QED BY SMTT(100), <2>1
<1>2. front \in Seq(Nat) /\ Len(front) = n - 1
  BY SMTT(100), <1>1
<1> HIDE DEF front, n
<1>3. Len(front) # 0
  BY SMTT(100), <1>1, <1>2
<1>4. front # << >>
  BY SMTT(100), <1>3
<1>5. front \in Seq(Nat) \ {<< >>}
  BY ZenonT(100), <1>2, <1>4
<1> QED BY ZenonT(100), <1>5 DEF front, n

\* Rolling back a chunk keeps the groups well formed.
LEMMA RollbackType ==
  ASSUME NEW groups, DOMAIN groups \subseteq Txns,
         \A t \in DOMAIN groups : groups[t] \in
           [state : Outcome \cup {"Unresolved"}, ids : Seq(Nat) \ {<< >>}],
         NEW g, NEW b
  PROVE  /\ DOMAIN RollbackChunk(groups, g, b) \subseteq Txns
         /\ \A t \in DOMAIN RollbackChunk(groups, g, b) : RollbackChunk(groups, g, b)[t] \in
              [state : Outcome \cup {"Unresolved"}, ids : Seq(Nat) \ {<< >>}]
<1> DEFINE ids == groups[g.txn].ids
           n == Len(ids)
<1>1. CASE g = None \/ g.txn \notin DOMAIN groups \/ n = 0 \/ n # g.chunk + 1 \/ ids[n] # b
  <2>1. RollbackChunk(groups, g, b) = groups
    BY <1>1 DEF RollbackChunk
  <2> QED BY <2>1
<1>2. CASE /\ g # None /\ g.txn \in DOMAIN groups
           /\ n # 0 /\ n = g.chunk + 1 /\ ids[n] = b /\ n = 1
  <2>1. RollbackChunk(groups, g, b) = Drop(groups, {g.txn})
    BY <1>2 DEF RollbackChunk
  <2> QED BY <2>1 DEF Drop
<1>3. CASE /\ g # None /\ g.txn \in DOMAIN groups
           /\ n # 0 /\ n = g.chunk + 1 /\ ids[n] = b /\ n # 1
  <2>1. RollbackChunk(groups, g, b) = [groups EXCEPT ![g.txn].ids = SubSeq(ids, 1, n - 1)]
    BY <1>3 DEF RollbackChunk
  <2>2. ids \in Seq(Nat)
    BY <1>3
  <2> DEFINE front == SubSeq(ids, 1, n - 1)
  <2>3. front \in Seq(Nat) \ {<< >>}
    BY ZenonT(100), <1>3, <2>2, FrontType
  <2>4. RollbackChunk(groups, g, b) = [groups EXCEPT ![g.txn].ids = front]
    BY ZenonT(100), <2>1
  <2> HIDE DEF front, ids, n
  <2>6. /\ DOMAIN RollbackChunk(groups, g, b) = DOMAIN groups
        /\ RollbackChunk(groups, g, b)[g.txn] = [groups[g.txn] EXCEPT !.ids = front]
        /\ \A t \in DOMAIN groups : t # g.txn => RollbackChunk(groups, g, b)[t] = groups[t]
    BY ZenonT(100), <2>4, <1>3
  <2>7. [groups[g.txn] EXCEPT !.ids = front] \in
          [state : Outcome \cup {"Unresolved"}, ids : Seq(Nat) \ {<< >>}]
    BY <2>3, <1>3
  <2> QED BY ZenonT(100), <2>6, <2>7
<1> QED BY ZenonT(100), <1>1, <1>2, <1>3

\* Marking a producer as failed keeps the cursors well formed.
LEMMA FailProducerType ==
  ASSUME IndInv, NEW p
  PROVE  /\ DOMAIN FailProducer(p) \subseteq Producers
         /\ \A q \in DOMAIN FailProducer(p) :
              FailProducer(p)[q] \in [epoch : ProducerEpochs, next : Nat, failed : BOOLEAN]
  BY ZenonT(100) DEF FailProducer, IndInv, TypeOK

\* fail of a batch that was not written keeps the invariant and stable history.
LEMMA FailNotWrittenInv ==
  ASSUME IndInv, NEW b \in inFlight, FailNotWritten(b)
  PROVE  IndInv' /\ StableStep
<1>1. b \in DOMAIN batches /\ batches[b].status = "Pending" /\ b \in Nat
      /\ batches[b] \in BatchRuntime
  BY TypeFacts
<1>2. "Aborted" \in Status /\ 0 \in Nat
  BY DEF Status
<1>3. batches' = [batches EXCEPT ![b].status = "Aborted", ![b].replicas = 0]
  BY DEF FailNotWritten
<1>4. /\ batches' \in [firstKey..(nextBatch - 1) -> BatchRuntime]
      /\ SameShape(batches, batches')
      /\ ContiguousPass(batches) \subseteq ContiguousPass(batches')
      /\ StablePass(batches) \subseteq StablePass(batches')
      /\ ReplicatedPass(batches, policy.minIsr) \subseteq ReplicatedPass(batches', policy.minIsr)
      /\ \A k \in DOMAIN batches : k # b => batches'[k] = batches[k]
      /\ \A k \in DOMAIN batches : batches[k].status \in Outcome =>
           [batches'[k] EXCEPT !.replicas = batches[k].replicas] = batches[k]
  BY ZenonT(100), <1>1, <1>2, <1>3, SettleBatch
<1>5. /\ UNCHANGED <<ringEpoch, virtualLanes, leaderEpoch, nextBatch, nextOffset, firstKey,
                     logStart, policy, finalizedGroups, dedup>>
      /\ AdvanceCachedWatermarks(batches')
      /\ inFlight' = inFlight \ {b}
      /\ producers' = FailProducer(batches[b].producer)
      /\ atomicGroups' = RollbackChunk(atomicGroups, batches[b].group, b)
  BY DEF FailNotWritten, sequencerVars
<1>6. WatermarksNext
  BY <1>4, <1>5, AdvanceStep
<1>7. /\ DOMAIN producers' \subseteq Producers
      /\ \A q \in DOMAIN producers' :
           producers'[q] \in [epoch : ProducerEpochs, next : Nat, failed : BOOLEAN]
  BY ZenonT(100), <1>5, FailProducerType
<1>8. /\ DOMAIN atomicGroups' \subseteq Txns
      /\ \A t \in DOMAIN atomicGroups' : atomicGroups'[t] \in
           [state : Outcome \cup {"Unresolved"}, ids : Seq(Nat) \ {<< >>}]
  <2>1. /\ DOMAIN atomicGroups \subseteq Txns
        /\ \A t \in DOMAIN atomicGroups : atomicGroups[t] \in
             [state : Outcome \cup {"Unresolved"}, ids : Seq(Nat) \ {<< >>}]
    BY ZenonT(100) DEF IndInv, TypeOK
  <2> QED BY ZenonT(100), <1>5, <2>1, RollbackType
<1>9. TypeOK'
  <2>1. waiters' \subseteq [mode : Modes, through : Nat] /\ inFlight' \subseteq Nat
    BY <1>5, <1>6 DEF WatermarksNext, IndInv, TypeOK
  <2>2. contiguous' \in Cursor /\ stable' \in Cursor /\ replicated' \in Cursor
    BY <1>6 DEF WatermarksNext
  <2> QED BY ZenonT(100), <1>4, <1>5, <1>7, <1>8, <2>1, <2>2 DEF IndInv, TypeOK
<1>10. DOMAIN batches' = DOMAIN batches
  BY <1>4, TypeFacts
<1>11. OutstandingSettles'
  BY <1>4, <1>5, <1>10, TypeFacts DEF OutstandingSettles
<1>12. StableStep
  BY <1>4, <1>5, <1>6, <1>10, StableStepKept DEF WatermarksNext
<1> QED BY <1>6, <1>9, <1>11, <1>12 DEF IndInv, WatermarksNext

\* fail with an unknown result only marks the producer.
LEMMA FailAmbiguousInv ==
  ASSUME IndInv, NEW b \in inFlight, FailAmbiguous(b)
  PROVE  IndInv' /\ StableStep
<1>1. /\ UNCHANGED <<ringEpoch, virtualLanes, leaderEpoch, nextBatch, nextOffset, firstKey,
                     batches, logStart, contiguous, stable, replicated, waiters, policy,
                     atomicGroups, finalizedGroups, dedup>>
      /\ inFlight' = inFlight \ {b}
      /\ producers' = FailProducer(batches[b].producer)
  BY DEF FailAmbiguous, sequencerVars, watermarkVars, groupVars
<1>2. /\ DOMAIN producers' \subseteq Producers
      /\ \A q \in DOMAIN producers' :
           producers'[q] \in [epoch : ProducerEpochs, next : Nat, failed : BOOLEAN]
  BY ZenonT(100), <1>1, FailProducerType
<1>3. TypeOK'
  BY ZenonT(100), <1>1, <1>2 DEF IndInv, TypeOK
<1> QED BY <1>1, <1>3, QuietStep

\* Replication progress raises a replica count and advances the cursors.
LEMMA SetDurableReplicaCountInv ==
  ASSUME IndInv, NEW b \in DOMAIN batches, NEW r \in 1..ReplicationFactor,
         SetDurableReplicaCount(b, r)
  PROVE  IndInv' /\ StableStep
<1> DEFINE rs == Greatest(batches[b].replicas, r)
<1>1. /\ batches[b].replicas \in Nat /\ batches[b] \in BatchRuntime /\ r \in Nat
      /\ batches \in [firstKey..(nextBatch - 1) -> BatchRuntime]
      /\ \A k \in DOMAIN batches : batches[k] \in BatchRuntime
  BY TypeFacts
<1>2. rs \in Nat /\ rs >= batches[b].replicas
  BY <1>1 DEF Greatest
<1>3. /\ batches' = [batches EXCEPT ![b].replicas = rs]
      /\ batches[b].status # "Pending"
  BY <1>1 DEF SetDurableReplicaCount, BatchRuntime
<1> HIDE DEF rs
<1>4. /\ DOMAIN batches' = DOMAIN batches
      /\ batches'[b] = [batches[b] EXCEPT !.replicas = rs]
      /\ \A k \in DOMAIN batches : k # b => batches'[k] = batches[k]
  BY <1>1, <1>3
<1>5. /\ batches'[b] \in BatchRuntime /\ batches'[b].first = batches[b].first
      /\ batches'[b].count = batches[b].count /\ batches'[b].status = batches[b].status
      /\ batches'[b].replicas = rs
      /\ [batches'[b] EXCEPT !.replicas = batches[b].replicas] = batches[b]
  BY ZenonT(100), <1>1, <1>2, <1>4 DEF BatchRuntime
<1>6. batches' \in [firstKey..(nextBatch - 1) -> BatchRuntime] /\ SameShape(batches, batches')
  <2>1. batches' \in [firstKey..(nextBatch - 1) -> BatchRuntime]
    BY <1>1, <1>3, <1>4, <1>5
  <2>2. SameShape(batches, batches')
    BY ZenonT(100), <1>4, <1>5 DEF SameShape
  <2> QED BY <2>1, <2>2
<1>7. /\ ContiguousPass(batches) \subseteq ContiguousPass(batches')
      /\ StablePass(batches) \subseteq StablePass(batches')
  BY ZenonT(100), <1>4, <1>5 DEF ContiguousPass, StablePass, Outcome
<1>8. ReplicatedPass(batches, policy.minIsr) \subseteq ReplicatedPass(batches', policy.minIsr)
  <2>1. policy.minIsr \in Nat
    BY ZenonT(100) DEF IndInv, TypeOK
  <2>2. \A k \in DOMAIN batches : /\ k \in DOMAIN batches'
                                    /\ batches'[k].status = batches[k].status
                                    /\ batches[k].replicas \in Nat /\ batches'[k].replicas \in Nat
                                    /\ batches'[k].replicas >= batches[k].replicas
    <3> TAKE k \in DOMAIN batches
    <3>1. batches[k].replicas \in Nat
      BY TypeFacts
    <3>2. CASE k = b
      BY <3>2, <1>2, <1>4, <1>5, <3>1
    <3>3. CASE k # b
      BY <3>3, <1>4, <3>1
    <3> QED BY ZenonT(100), <3>2, <3>3
  <2> QED BY ONLY <2>1, <2>2 DEF ReplicatedPass
<1>9. /\ UNCHANGED <<ringEpoch, virtualLanes, leaderEpoch, nextBatch, nextOffset, firstKey,
                     logStart, policy, atomicGroups, finalizedGroups, producers, inFlight>>
      /\ AdvanceCachedWatermarks(batches')
      /\ dedup' = RaiseReceipts(b, r)
  BY DEF SetDurableReplicaCount, sequencerVars, groupVars
<1>10. WatermarksNext
  BY <1>6, <1>7, <1>8, <1>9, AdvanceStep
<1>11. \A d \in DOMAIN dedup' : dedup'[d] \in [count : Counts, batch : Nat, replicas : Nat]
  <2>1. \A d \in DOMAIN dedup : dedup[d] \in [count : Counts, batch : Nat, replicas : Nat]
    BY ZenonT(100) DEF IndInv, TypeOK
  <2> QED BY ZenonT(100), <1>1, <1>9, <2>1 DEF RaiseReceipts, Greatest
<1>12. TypeOK'
  <2>1. waiters' \subseteq [mode : Modes, through : Nat]
    BY ZenonT(100), <1>10 DEF WatermarksNext, IndInv, TypeOK
  <2>2. contiguous' \in Cursor /\ stable' \in Cursor /\ replicated' \in Cursor
    BY <1>10 DEF WatermarksNext
  <2> QED BY ZenonT(100), <1>6, <1>9, <1>11, <2>1, <2>2 DEF IndInv, TypeOK
<1>13. OutstandingSettles'
  BY <1>3, <1>4, <1>9, TypeFacts DEF OutstandingSettles
<1>14. StableStep
  <2>1. \A k \in DOMAIN batches : [batches'[k] EXCEPT !.replicas = batches[k].replicas] = batches[k]
    BY ZenonT(100), <1>1, <1>4, <1>5 DEF BatchRuntime
  <2> QED BY <1>4, <1>9, <1>10, <2>1, StableStepKept DEF WatermarksNext
<1> QED BY <1>10, <1>12, <1>13, <1>14 DEF IndInv, WatermarksNext

\* A group outcome decides undecided chunks only, all at once.
LEMMA FinalizeAtomicGroupInv ==
  ASSUME IndInv, NEW t \in DOMAIN atomicGroups, NEW outcome \in Outcome,
         FinalizeAtomicGroup(t, outcome)
  PROVE  IndInv' /\ StableStep
<1>1. /\ batches \in [firstKey..(nextBatch - 1) -> BatchRuntime]
      /\ \A k \in DOMAIN batches : batches[k] \in BatchRuntime
      /\ DOMAIN batches = firstKey..(nextBatch - 1)
  BY TypeFacts
<1>2. /\ batches' = [k \in DOMAIN batches |->
               IF k \in GroupIds(t) THEN [batches[k] EXCEPT !.status = outcome]
               ELSE batches[k]]
      /\ \A k \in GroupIds(t) : k \in DOMAIN batches /\ batches[k].status = "Unresolved"
      /\ outcome \in Status /\ outcome # "Pending" /\ outcome # "Unresolved"
  BY DEF FinalizeAtomicGroup, MayFinalize, Outcome, Status
<1>3. /\ DOMAIN batches' = DOMAIN batches
      /\ \A k \in DOMAIN batches :
           \/ batches'[k] = batches[k]
           \/ /\ batches'[k] = [batches[k] EXCEPT !.status = outcome]
              /\ batches[k].status = "Unresolved"
  BY <1>2
<1>4. \A k \in DOMAIN batches :
        /\ batches'[k] \in BatchRuntime /\ batches'[k].first = batches[k].first
        /\ batches'[k].count = batches[k].count /\ batches'[k].replicas = batches[k].replicas
        /\ \/ batches'[k] = batches[k]
           \/ batches'[k].status = outcome /\ batches[k].status = "Unresolved"
  <2> TAKE k \in DOMAIN batches
  <2>1. CASE batches'[k] = batches[k]
    BY <2>1, <1>1
  <2>2. CASE /\ batches'[k] = [batches[k] EXCEPT !.status = outcome]
             /\ batches[k].status = "Unresolved"
    <3>1. batches[k] \in BatchRuntime /\ outcome \in Status
      BY <1>1, <1>2
    <3> QED BY ONLY <2>2, <3>1 DEF BatchRuntime
  <2> QED BY ZenonT(100), <2>1, <2>2, <1>3
<1>5. batches' \in [firstKey..(nextBatch - 1) -> BatchRuntime] /\ SameShape(batches, batches')
  <2>1. batches' \in [firstKey..(nextBatch - 1) -> BatchRuntime]
    BY ZenonT(100), <1>1, <1>2, <1>3, <1>4
  <2>2. SameShape(batches, batches')
    BY <1>4 DEF SameShape
  <2> QED BY <2>1, <2>2
<1>6. /\ ContiguousPass(batches) \subseteq ContiguousPass(batches')
      /\ StablePass(batches) \subseteq StablePass(batches')
      /\ ReplicatedPass(batches, policy.minIsr) \subseteq ReplicatedPass(batches', policy.minIsr)
  BY <1>2, <1>3, <1>4 DEF ContiguousPass, StablePass, ReplicatedPass, Outcome
<1>7. /\ UNCHANGED <<ringEpoch, virtualLanes, leaderEpoch, nextBatch, nextOffset, firstKey,
                     logStart, policy, producers, dedup, inFlight>>
      /\ AdvanceCachedWatermarks(batches')
      /\ atomicGroups' = [atomicGroups EXCEPT ![t].state = outcome]
      /\ finalizedGroups' = Insert(finalizedGroups, t, outcome)
  BY DEF FinalizeAtomicGroup, sequencerVars, producerVars
<1>8. WatermarksNext
  BY <1>5, <1>6, <1>7, AdvanceStep
<1>9. TypeOK'
  <2>1. waiters' \subseteq [mode : Modes, through : Nat]
    BY <1>8 DEF WatermarksNext, IndInv, TypeOK
  <2>2. contiguous' \in Cursor /\ stable' \in Cursor /\ replicated' \in Cursor
    BY <1>8 DEF WatermarksNext
  <2>3. /\ DOMAIN atomicGroups' \subseteq Txns
        /\ \A u \in DOMAIN atomicGroups' : atomicGroups'[u] \in
             [state : Outcome \cup {"Unresolved"}, ids : Seq(Nat) \ {<< >>}]
    <3>1. /\ DOMAIN atomicGroups \subseteq Txns
          /\ \A u \in DOMAIN atomicGroups : atomicGroups[u] \in
               [state : Outcome \cup {"Unresolved"}, ids : Seq(Nat) \ {<< >>}]
      BY DEF IndInv, TypeOK
    <3>2. /\ DOMAIN atomicGroups' = DOMAIN atomicGroups
          /\ atomicGroups'[t] = [atomicGroups[t] EXCEPT !.state = outcome]
          /\ \A u \in DOMAIN atomicGroups : u # t => atomicGroups'[u] = atomicGroups[u]
      BY <1>7
    <3>3. [atomicGroups[t] EXCEPT !.state = outcome] \in
            [state : Outcome \cup {"Unresolved"}, ids : Seq(Nat) \ {<< >>}]
      BY <3>1
    <3> QED BY ZenonT(30), <3>1, <3>2, <3>3
  <2>4. /\ DOMAIN finalizedGroups' \subseteq Txns
        /\ \A u \in DOMAIN finalizedGroups' : finalizedGroups'[u] \in Outcome
    BY <1>7 DEF IndInv, TypeOK, Insert
  <2> QED BY ZenonT(30), <1>5, <1>7, <2>1, <2>2, <2>3, <2>4 DEF IndInv, TypeOK
<1>10. OutstandingSettles'
  BY <1>3, <1>4, <1>7, TypeFacts DEF OutstandingSettles
<1>11. StableStep
  <2>1. \A k \in DOMAIN batches : batches[k].status \in Outcome =>
          [batches'[k] EXCEPT !.replicas = batches[k].replicas] = batches[k]
    <3> TAKE k \in DOMAIN batches
    <3> HAVE batches[k].status \in Outcome
    <3>1. batches'[k] = batches[k]
      BY <1>3 DEF Outcome
    <3> QED BY <3>1, <1>1 DEF BatchRuntime
  <2> QED BY <1>3, <1>7, <1>8, <2>1, StableStepKept DEF WatermarksNext
<1> QED BY <1>8, <1>9, <1>10, <1>11 DEF IndInv, WatermarksNext

\* A walk restarted from a key inside the retained range stays inside that range.
LEMMA Within ==
  ASSUME NEW lo \in Nat, NEW hi \in Nat, NEW mid \in lo..hi
  PROVE  mid \in Nat /\ \A k \in mid..hi : k \in lo..hi
  OBVIOUS

\* After a restart of the walk over the batches from key on, the last stable
\* offset is where it was: the first undecided batch is still in the index.
LEMMA ResetKeepsStable ==
  ASSUME IndInv, Layout', CursorsExact', TypeOK',
         UNCHANGED <<nextBatch, nextOffset>>,
         firstKey' \in firstKey..nextBatch,
         \A k \in firstKey'..(nextBatch - 1) : batches'[k] = batches[k]
  PROVE  stable'.end >= stable.end
<1>1. /\ firstKey \in Nat /\ nextBatch \in Nat /\ nextOffset \in Nat
      /\ batches \in [firstKey..(nextBatch - 1) -> BatchRuntime]
      /\ batches' \in [firstKey'..(nextBatch - 1) -> BatchRuntime]
  <2>1. /\ firstKey \in Nat /\ nextBatch \in Nat /\ nextOffset \in Nat
        /\ batches \in [firstKey..(nextBatch - 1) -> BatchRuntime]
    BY ZenonT(100), TypeFacts
  <2>2. batches' \in [firstKey'..(nextBatch' - 1) -> BatchRuntime] /\ nextBatch' = nextBatch
    BY ZenonT(100) DEF TypeOK
  <2> QED BY ZenonT(100), <2>1, <2>2
<1>2. /\ stable.key \in firstKey..nextBatch
      /\ stable.end = StartIn(batches, nextBatch, nextOffset, stable.key)
      /\ \A k \in firstKey..(stable.key - 1) : k \in StablePass(batches)
  BY ZenonT(100) DEF IndInv, CursorsExact, ExactIn, OnBoundary
<1>3. /\ stable'.key \in firstKey'..nextBatch
      /\ stable'.end = StartIn(batches', nextBatch, nextOffset, stable'.key)
      /\ stable'.key \notin StablePass(batches')
  BY ZenonT(100) DEF CursorsExact, ExactIn, OnBoundary
<1>4. StartIn(batches', nextBatch, nextOffset, stable'.key)
        = StartIn(batches, nextBatch, nextOffset, stable'.key)
  <2>1. stable'.key # nextBatch => batches'[stable'.key] = batches[stable'.key]
    BY <1>1, <1>3
  <2>2. stable'.key = nextBatch \/ stable'.key < nextBatch
    BY <1>1, <1>3
  <2> QED BY ZenonT(100), <2>1, <2>2 DEF StartIn
<1>5. ~(stable'.key < stable.key)
  <2> SUFFICES ASSUME stable'.key < stable.key PROVE FALSE
    OBVIOUS
  <2>1. /\ stable'.key \in firstKey..(stable.key - 1)
        /\ stable'.key \in firstKey'..(nextBatch - 1)
    BY <1>1, <1>2, <1>3
  <2>2. batches'[stable'.key].status \in Outcome /\ stable'.key \in DOMAIN batches'
    BY <1>1, <1>2, <2>1 DEF StablePass
  <2> QED BY ZenonT(100), <1>3, <2>2 DEF StablePass
<1>6. \A k \in firstKey..nextBatch : StartIn(batches, nextBatch, nextOffset, k) \in Nat
  BY <1>1 DEF StartIn, BatchRuntime
<1>7. stable'.key \in firstKey..nextBatch /\ stable.key \in Nat /\ stable'.key \in Nat
  <2>1. /\ firstKey \in Nat /\ nextBatch \in Nat /\ firstKey' \in firstKey..nextBatch
        /\ stable.key \in firstKey..nextBatch /\ stable'.key \in firstKey'..nextBatch
    BY ZenonT(100), <1>1, <1>2, <1>3
  <2> QED BY ZenonT(100), <2>1, Within
<1> DEFINE before == StartIn(batches, nextBatch, nextOffset, stable.key)
           after == StartIn(batches, nextBatch, nextOffset, stable'.key)
<1>a. before \in Nat /\ after \in Nat /\ stable.end = before /\ stable'.end = after
  BY ZenonT(100), <1>2, <1>3, <1>4, <1>6, <1>7
<1>8. CASE stable'.key = stable.key
  <2>1. before = after
    BY ZenonT(100), <1>8
  <2> HIDE DEF before, after
  <2> QED BY SMTT(100), <1>a, <2>1
<1>9. CASE stable.key < stable'.key
  <2>1. before < after
    BY <1>2, <1>7, <1>9 DEF IndInv, Layout, LayoutOf
  <2> HIDE DEF before, after
  <2> QED BY SMTT(100), <1>a, <2>1
<1>10. stable'.key = stable.key \/ stable.key < stable'.key
  BY <1>5, <1>7
<1> QED BY ZenonT(100), <1>8, <1>9, <1>10

\* A policy change restarts the cursors at the log start.
LEMMA UpdateReplicationPolicyInv ==
  ASSUME IndInv, NEW generation \in 1..MaxGeneration, NEW isr \in 1..ReplicationFactor,
         UpdateReplicationPolicy(generation, isr)
  PROVE  IndInv' /\ StableStep
<1>1. /\ UNCHANGED <<ringEpoch, virtualLanes, leaderEpoch, nextBatch, nextOffset, firstKey,
                     batches, logStart, atomicGroups, finalizedGroups, producers, dedup, inFlight>>
      /\ policy' = [generation |-> generation, minIsr |-> isr]
      /\ ResetCachedWatermarks(batches', firstKey, logStart, isr)
  BY DEF UpdateReplicationPolicy, sequencerVars, groupVars, producerVars
<1>2. isr \in Nat /\ isr # 0 /\ generation \in Nat /\ policy'.minIsr = isr
  BY SMTT(100), <1>1, PartitionAssumption
<1>3. LayoutOf(batches', firstKey, nextBatch, nextOffset, logStart)
  BY <1>1 DEF IndInv, Layout
<1>4. /\ Layout' /\ CursorsExact' /\ NoLostWakeup'
      /\ waiters' \subseteq waiters
      /\ contiguous' \in Cursor /\ stable' \in Cursor /\ replicated' \in Cursor
  BY ZenonT(100), <1>1, <1>2, <1>3, TypeFacts, ResetStep
<1>5. TypeOK'
  <2>1. waiters' \subseteq [mode : Modes, through : Nat]
    BY <1>4 DEF IndInv, TypeOK
  <2>2. policy' \in [generation : Nat, minIsr : Nat \ {0}]
    BY <1>1, <1>2
  <2> QED BY ZenonT(100), <1>1, <1>4, <2>1, <2>2 DEF IndInv, TypeOK
<1>6. OutstandingSettles'
  BY <1>1 DEF IndInv, OutstandingSettles
<1>7. stable'.end >= stable.end
  <2>1. firstKey' \in firstKey..nextBatch /\ \A k \in firstKey'..(nextBatch - 1) : batches'[k] = batches[k]
    BY <1>1, TypeFacts
  <2> QED BY <1>1, <1>4, <1>5, <2>1, ResetKeepsStable
<1>8. StableStep
  <2>1. \A k \in DOMAIN batches : [batches'[k] EXCEPT !.replicas = batches[k].replicas] = batches[k]
    BY <1>1, TypeFacts DEF BatchRuntime
  <2> QED BY <1>1, <1>7, <2>1, StableStepKept
<1> QED BY ZenonT(100), <1>4, <1>5, <1>6, <1>8 DEF IndInv
=============================================================================
