------------------------ MODULE PartitionGroupProofs ------------------------
(***************************************************************************)
(* Every action of Partition keeps what the coordinator tracks of atomic   *)
(* groups, and its chunks become readable together or not at all, for every *)
(* value of the constants.                                                 *)
(*                                                                         *)
(* A group's unity (GroupAllOrNothing) rests on the state of its entry:    *)
(* which chunks it lists, and that every other chunk was aborted.          *)
(***************************************************************************)
EXTENDS PartitionProofs

\* The ids a group lists are its own chunks, in the order they were reserved, and
\* its state is the recorded outcome.
ListsOwnChunks(t) ==
  LET ids == atomicGroups[t].ids
  IN  /\ \A n \in DOMAIN ids : ids[n] < nextBatch
      /\ \A m, n \in DOMAIN ids : m < n => ids[m] < ids[n]
      /\ \A n \in DOMAIN ids : ids[n] \in DOMAIN batches =>
           batches[ids[n]].group # None /\ batches[ids[n]].group.txn = t
      /\ IF t \in DOMAIN finalizedGroups THEN atomicGroups[t].state = finalizedGroups[t]
         ELSE atomicGroups[t].state = "Unresolved"

\* A chunk its group lists has the group's outcome, and is uncommitted before that;
\* a chunk that is not listed was aborted.
ChunkFollows(k) ==
  LET t == batches[k].group.txn
      status == batches[k].status
  IN  IF t \in DOMAIN atomicGroups /\ k \in GroupIds(t)
      THEN IF atomicGroups[t].state = "Unresolved" THEN status # "Committed"
           ELSE status = atomicGroups[t].state
      ELSE status = "Aborted"

GroupInv ==
  /\ \A t \in DOMAIN atomicGroups : ListsOwnChunks(t)
  /\ \A k \in DOMAIN batches : batches[k].group # None => ChunkFollows(k)
-----------------------------------------------------------------------------
(***************************************************************************)
(* Groups.                                                                 *)
(***************************************************************************)

\* What the types say of the groups and their chunks.
LEMMA GroupFacts ==
  ASSUME IndInv
  PROVE  /\ \A t \in DOMAIN atomicGroups :
              /\ atomicGroups[t] \in [state : Outcome \cup {"Unresolved"}, ids : Seq(Nat) \ {<< >>}]
              /\ atomicGroups[t].ids \in Seq(Nat) /\ Len(atomicGroups[t].ids) \in Nat \ {0}
              /\ DOMAIN atomicGroups[t].ids = 1..Len(atomicGroups[t].ids)
              /\ \A n \in 1..Len(atomicGroups[t].ids) : atomicGroups[t].ids[n] \in Nat
         /\ \A t \in DOMAIN finalizedGroups : finalizedGroups[t] \in Outcome
<1>1. \A t \in DOMAIN atomicGroups :
        atomicGroups[t] \in [state : Outcome \cup {"Unresolved"}, ids : Seq(Nat) \ {<< >>}]
  BY DEF IndInv, TypeOK
<1>2. ASSUME NEW t \in DOMAIN atomicGroups
      PROVE  /\ atomicGroups[t].ids \in Seq(Nat) /\ Len(atomicGroups[t].ids) \in Nat \ {0}
             /\ DOMAIN atomicGroups[t].ids = 1..Len(atomicGroups[t].ids)
             /\ \A n \in 1..Len(atomicGroups[t].ids) : atomicGroups[t].ids[n] \in Nat
  <2>1. atomicGroups[t].ids \in Seq(Nat) /\ atomicGroups[t].ids # << >>
    BY <1>1
  <2> QED BY <2>1
<1>3. \A t \in DOMAIN finalizedGroups : finalizedGroups[t] \in Outcome
  BY DEF IndInv, TypeOK
<1> QED BY <1>1, <1>2, <1>3

\* A chunk still being written is listed by its group, which is undecided.
LEMMA PendingListed ==
  ASSUME IndInv, GroupInv, NEW b \in DOMAIN batches,
         batches[b].status = "Pending", batches[b].group # None
  PROVE  /\ batches[b].group.txn \in DOMAIN atomicGroups
         /\ b \in GroupIds(batches[b].group.txn)
         /\ atomicGroups[batches[b].group.txn].state = "Unresolved"
<1>1. ChunkFollows(b)
  BY DEF GroupInv
<1>2. \A t \in DOMAIN atomicGroups : atomicGroups[t].state \in Outcome \cup {"Unresolved"}
  BY GroupFacts
<1> QED BY <1>1, <1>2 DEF ChunkFollows, Outcome

\* Steps that leave the groups alone and settle at most a chunk whose group is
\* undecided, without committing it.
LEMMA SettleGroups ==
  ASSUME IndInv, GroupInv, UNCHANGED <<nextBatch, atomicGroups, finalizedGroups>>,
         DOMAIN batches' = DOMAIN batches,
         \A k \in DOMAIN batches :
           /\ batches'[k].group = batches[k].group
           /\ \/ batches'[k].status = batches[k].status
              \/ batches[k].status = "Pending" /\ batches'[k].status # "Committed"
              \/ batches[k].group = None
  PROVE  GroupInv'
<1>1. \A t \in DOMAIN atomicGroups : ListsOwnChunks(t)'
  BY SMTT(100) DEF GroupInv, ListsOwnChunks
<1>2. \A t \in DOMAIN atomicGroups : GroupIds(t)' = GroupIds(t)
  BY DEF GroupIds
<1>3. ASSUME NEW k \in DOMAIN batches, batches[k].group # None
      PROVE  ChunkFollows(k)'
  <2>1. ChunkFollows(k)
    BY <1>3 DEF GroupInv
  <2>2. CASE batches'[k].status = batches[k].status
    BY <2>1, <2>2, <1>2 DEF ChunkFollows
  <2>3. CASE batches[k].status = "Pending" /\ batches'[k].status # "Committed"
    <3>1. /\ batches[k].group.txn \in DOMAIN atomicGroups
          /\ k \in GroupIds(batches[k].group.txn)
          /\ atomicGroups[batches[k].group.txn].state = "Unresolved"
      BY <1>3, <2>3, PendingListed
    <3> QED BY <2>3, <3>1, <1>2 DEF ChunkFollows
  <2> QED BY <1>3, <2>2, <2>3
<1> QED BY <1>1, <1>3 DEF GroupInv

\* A chunk that is durable waits for its group's outcome.
LEMMA CompleteGroups ==
  ASSUME IndInv, GroupInv, NEW b \in inFlight, NEW r \in 1..ReplicationFactor, Complete(b, r)
  PROVE  GroupInv'
<1>1. /\ b \in DOMAIN batches /\ batches[b].status = "Pending" /\ batches[b] \in BatchRuntime
      /\ UNCHANGED <<nextBatch, atomicGroups, finalizedGroups>>
  BY TypeFacts DEF Complete, sequencerVars, groupVars
<1>2. /\ DOMAIN batches' = DOMAIN batches
      /\ \A k \in DOMAIN batches : k # b => batches'[k] = batches[k]
      /\ batches'[b] = [[batches[b] EXCEPT !.status = SettledStatus(b)]
                          EXCEPT !.replicas = Greatest(batches[b].replicas, r)]
  BY SMTT(100), <1>1, TypeFacts DEF Complete, BatchRuntime
<1>3. batches'[b].group = batches[b].group /\ batches'[b].status = SettledStatus(b)
  BY <1>1, <1>2 DEF BatchRuntime
<1>4. batches[b].group # None => batches'[b].status # "Committed"
  BY <1>3 DEF SettledStatus
<1> QED BY ZenonT(100), <1>1, <1>2, <1>3, <1>4, SettleGroups

\* More replicas change no outcome.
LEMMA SetDurableReplicaCountGroups ==
  ASSUME IndInv, GroupInv, NEW b \in DOMAIN batches, NEW r \in 1..ReplicationFactor,
         SetDurableReplicaCount(b, r)
  PROVE  GroupInv'
<1>1. /\ batches[b] \in BatchRuntime /\ UNCHANGED <<nextBatch, atomicGroups, finalizedGroups>>
  BY TypeFacts DEF SetDurableReplicaCount, sequencerVars, groupVars
<1>2. /\ DOMAIN batches' = DOMAIN batches
      /\ \A k \in DOMAIN batches : k # b => batches'[k] = batches[k]
      /\ batches'[b] = [batches[b] EXCEPT !.replicas = Greatest(batches[b].replicas, r)]
  BY SMTT(100), <1>1, TypeFacts DEF SetDurableReplicaCount, BatchRuntime
<1>3. batches'[b].group = batches[b].group /\ batches'[b].status = batches[b].status
  BY <1>1, <1>2 DEF BatchRuntime
<1> QED BY ZenonT(100), <1>1, <1>2, <1>3, SettleGroups

\* Steps that do not concern groups.
LEMMA ControlGroups ==
  ASSUME IndInv, GroupInv, UNCHANGED <<nextBatch, batches, atomicGroups, finalizedGroups>>
  PROVE  GroupInv'
BY SettleGroups

\* A reservation adds its batch to the list of its group, which is undecided.
LEMMA ReserveGroups ==
  ASSUME IndInv, GroupInv, NEW p \in ProducerInputs, NEW g \in GroupInputs, NEW n \in Counts,
         NEW e \in LeaderEpochs \cup {None}, Reserve(p, g, n, e)
  PROVE  GroupInv'
<1>1. /\ nextBatch \in Nat /\ nextBatch' = nextBatch + 1
      /\ nextBatch \notin DOMAIN batches /\ \A k \in DOMAIN batches : k \in Nat /\ k < nextBatch
      /\ DOMAIN batches' = DOMAIN batches \cup {nextBatch}
      /\ \A k \in DOMAIN batches : batches'[k] = batches[k]
  BY SMTT(100), TypeFacts DEF Reserve, Insert
<1>2. /\ batches'[nextBatch].status = "Pending" /\ batches'[nextBatch].group = g
  BY DEF Reserve, Insert
<1>3. /\ finalizedGroups' = finalizedGroups /\ NewChunk(g)
      /\ atomicGroups' = RegisterChunk(atomicGroups, g, nextBatch)
  BY DEF Reserve
\* The other groups.
<1>4. ASSUME NEW u \in DOMAIN atomicGroups, u \in DOMAIN atomicGroups',
             atomicGroups'[u] = atomicGroups[u]
      PROVE  ListsOwnChunks(u)' /\ GroupIds(u)' = GroupIds(u) /\ nextBatch \notin GroupIds(u)
  <2>1. ListsOwnChunks(u)
    BY DEF GroupInv
  <2>2. \A m \in DOMAIN atomicGroups[u].ids :
          atomicGroups[u].ids[m] \in Nat /\ atomicGroups[u].ids[m] < nextBatch
    BY <2>1, GroupFacts DEF ListsOwnChunks
  <2>3. GroupIds(u)' = GroupIds(u) /\ nextBatch \notin GroupIds(u)
    BY SMTT(100), <1>1, <1>4, <2>2 DEF GroupIds
  <2>4. \A m \in DOMAIN atomicGroups[u].ids : atomicGroups[u].ids[m] < nextBatch'
    BY SMTT(100), <1>1, <2>2
  <2>5. \A m \in DOMAIN atomicGroups[u].ids : atomicGroups[u].ids[m] \in DOMAIN batches' =>
          batches'[atomicGroups[u].ids[m]].group # None /\ batches'[atomicGroups[u].ids[m]].group.txn = u
    BY SMTT(100), <1>1, <2>1, <2>2 DEF ListsOwnChunks
  <2>6. ListsOwnChunks(u)'
    BY ZenonT(100), <1>3, <1>4, <2>1, <2>4, <2>5 DEF ListsOwnChunks
  <2> QED BY <2>3, <2>6
<1>5. CASE g = None
  <2>1. atomicGroups' = atomicGroups
    BY ZenonT(100), <1>3, <1>5 DEF RegisterChunk
  <2>2. \A k \in DOMAIN batches : batches[k].group # None => ChunkFollows(k)'
    BY SMTT(100), <1>1, <1>4, <2>1 DEF GroupInv, ChunkFollows
  <2> QED BY ZenonT(100), <1>1, <1>2, <1>4, <1>5, <2>1, <2>2 DEF GroupInv
<1>6. CASE g # None
  <2> DEFINE t == g.txn
  <2>1. /\ t \notin DOMAIN finalizedGroups
        /\ DOMAIN atomicGroups' = DOMAIN atomicGroups \cup {t}
        /\ atomicGroups'[t].state = "Unresolved"
        /\ \A u \in DOMAIN atomicGroups : u # t => atomicGroups'[u] = atomicGroups[u]
    BY <1>3, <1>6 DEF RegisterChunk, Insert, NewChunk
  <2>2. /\ ListsOwnChunks(t)' /\ nextBatch \in GroupIds(t)'
        /\ \A k \in DOMAIN batches :
             k \in GroupIds(t)' <=> t \in DOMAIN atomicGroups /\ k \in GroupIds(t)
    <3>1. CASE t \in DOMAIN atomicGroups
      <4> DEFINE ids == atomicGroups[t].ids
                 ids2 == atomicGroups'[t].ids
      <4>1. /\ ids \in Seq(Nat) /\ Len(ids) \in Nat /\ DOMAIN ids = 1..Len(ids)
            /\ \A m \in 1..Len(ids) : ids[m] \in Nat
        BY <3>1, GroupFacts
      <4>2. ids2 = Append(ids, nextBatch)
        BY <1>3, <1>6, <3>1 DEF RegisterChunk, Insert
      <4> HIDE DEF ids, ids2
      <4>3. /\ DOMAIN ids2 = 1..(Len(ids) + 1) /\ ids2[Len(ids) + 1] = nextBatch
            /\ \A m \in 1..Len(ids) : ids2[m] = ids[m]
        BY SMTT(100), <1>1, <4>1, <4>2
      <4>4. ListsOwnChunks(t)
        BY ZenonT(100), <3>1 DEF GroupInv
      <4>5. \A m \in 1..Len(ids) : ids[m] < nextBatch
        BY <4>1, <4>4 DEF ListsOwnChunks, ids
      <4>6. \A m \in DOMAIN ids2 : ids2[m] < nextBatch'
        BY SMTT(100), <1>1, <4>1, <4>3, <4>5
      <4>7. \A l, m \in 1..Len(ids) : l < m => ids[l] < ids[m]
        BY <4>1, <4>4 DEF ListsOwnChunks, ids
      <4>8. \A l, m \in DOMAIN ids2 : l < m => ids2[l] < ids2[m]
        BY SMTT(100), <1>1, <4>1, <4>3, <4>5, <4>7
      <4>9. \A m \in DOMAIN ids2 : ids2[m] \in DOMAIN batches' =>
              batches'[ids2[m]].group # None /\ batches'[ids2[m]].group.txn = t
        <5> SUFFICES ASSUME NEW m \in DOMAIN ids2, ids2[m] \in DOMAIN batches'
                     PROVE  batches'[ids2[m]].group # None /\ batches'[ids2[m]].group.txn = t
          OBVIOUS
        <5>1. CASE m = Len(ids) + 1
          BY ZenonT(100), <5>1, <4>3, <1>2, <1>6
        <5>2. CASE m \in 1..Len(ids)
          <6>1. ids2[m] = ids[m] /\ ids[m] \in DOMAIN batches
            BY SMTT(100), <5>2, <4>1, <4>3, <4>5, <1>1
          <6>2. batches[ids[m]].group # None /\ batches[ids[m]].group.txn = t
            BY ZenonT(100), <6>1, <5>2, <4>1, <4>4 DEF ListsOwnChunks, ids
          <6> QED BY <6>1, <6>2, <1>1
        <5> QED BY SMTT(100), <5>1, <5>2, <4>1, <4>3
      <4>10. ListsOwnChunks(t)'
        BY ZenonT(100), <1>3, <2>1, <4>6, <4>8, <4>9 DEF ListsOwnChunks, ids2
      <4>11. GroupIds(t) = {ids[m] : m \in 1..Len(ids)}
        BY SMTT(100), <4>1 DEF GroupIds, ids
      <4>12. GroupIds(t)' = {ids2[m] : m \in 1..(Len(ids) + 1)}
        BY <4>3 DEF GroupIds, ids2
      <4>13. GroupIds(t)' = GroupIds(t) \cup {nextBatch}
        BY SMTT(100), <4>1, <4>3, <4>11, <4>12
      <4> QED BY SMTT(100), <3>1, <4>10, <4>13, <1>1
    <3>2. CASE t \notin DOMAIN atomicGroups
      <4>1. atomicGroups'[t].ids = <<nextBatch>>
        BY <1>3, <1>6, <3>2 DEF RegisterChunk, Insert
      <4>2. GroupIds(t)' = {nextBatch}
        BY SMTT(100), <4>1 DEF GroupIds
      <4>3. ListsOwnChunks(t)'
        BY SMTT(100), <4>1, <1>1, <1>2, <1>3, <1>6, <2>1 DEF ListsOwnChunks
      <4> QED BY <3>2, <4>2, <4>3, <1>1
    <3> QED BY <3>1, <3>2
  <2>3. \A u \in DOMAIN atomicGroups' : ListsOwnChunks(u)'
    BY ZenonT(100), <1>4, <2>1, <2>2
  <2>4. \A k : k = nextBatch => ChunkFollows(k)'
    BY <1>2, <1>6, <2>1, <2>2 DEF ChunkFollows
  <2>5. ASSUME NEW k \in DOMAIN batches, batches[k].group # None PROVE ChunkFollows(k)'
    <3>1. ChunkFollows(k) /\ batches'[k] = batches[k]
      BY ZenonT(100), <1>1, <2>5 DEF GroupInv
    <3>2. CASE batches[k].group.txn # t
      <4>1. \A u \in DOMAIN atomicGroups : u # t => GroupIds(u)' = GroupIds(u)
        BY ZenonT(100), <1>4, <2>1
      <4> QED BY <2>1, <3>1, <3>2, <4>1 DEF ChunkFollows
    <3>3. CASE batches[k].group.txn = t
      <4>1. t \in DOMAIN atomicGroups => atomicGroups[t].state = "Unresolved"
        BY <1>3, <1>6 DEF NewChunk
      <4> QED BY ZenonT(100), <2>1, <2>2, <3>1, <3>3, <4>1 DEF ChunkFollows
    <3> QED BY ZenonT(100), <3>2, <3>3
  <2> QED BY <1>1, <2>3, <2>4, <2>5 DEF GroupInv
<1> QED BY SMTT(100), <1>5, <1>6

\* A batch that was not written leaves its group's list if it is at its end; the
\* other chunks of a group that goes with its only listed chunk were aborted.
LEMMA FailNotWrittenGroups ==
  ASSUME IndInv, GroupInv, NEW b \in inFlight, FailNotWritten(b)
  PROVE  GroupInv'
<1>1. /\ b \in DOMAIN batches /\ batches[b] \in BatchRuntime /\ batches[b].status = "Pending"
      /\ UNCHANGED <<nextBatch, finalizedGroups>>
  BY TypeFacts DEF FailNotWritten, sequencerVars
<1>2. /\ DOMAIN batches' = DOMAIN batches
      /\ \A k \in DOMAIN batches : k # b => batches'[k] = batches[k]
      /\ batches'[b] = [[batches[b] EXCEPT !.status = "Aborted"] EXCEPT !.replicas = 0]
  BY <1>1, TypeFacts DEF FailNotWritten
<1>3. batches'[b].group = batches[b].group /\ batches'[b].status = "Aborted"
  BY <1>1, <1>2 DEF BatchRuntime
<1>4. atomicGroups' = RollbackChunk(atomicGroups, batches[b].group, b)
  BY DEF FailNotWritten
<1>5. CASE atomicGroups' = atomicGroups
  <2>1. \A k \in DOMAIN batches :
          /\ batches'[k].group = batches[k].group
          /\ \/ batches'[k].status = batches[k].status
             \/ batches[k].status = "Pending" /\ batches'[k].status # "Committed"
             \/ batches[k].group = None
    BY ZenonT(100), <1>1, <1>2, <1>3
  <2> QED BY <1>1, <1>2, <1>5, <2>1, SettleGroups
<1>6. CASE atomicGroups' # atomicGroups
  <2> PICK t : t = batches[b].group.txn
    BY SMTT(100)
  <2> DEFINE ids == atomicGroups[t].ids
             N == Len(ids)
  <2>1. /\ batches[b].group # None /\ t \in DOMAIN atomicGroups /\ N # 0 /\ ids[N] = b
        /\ IF N = 1 THEN atomicGroups' = Drop(atomicGroups, {t})
           ELSE atomicGroups' = [atomicGroups EXCEPT ![t].ids = SubSeq(ids, 1, N - 1)]
    BY ZenonT(100), <1>4, <1>6 DEF RollbackChunk
  <2>2. /\ ids \in Seq(Nat) /\ N \in Nat \ {0} /\ DOMAIN ids = 1..N
        /\ \A m \in 1..N : ids[m] \in Nat
    BY <2>1, GroupFacts
  <2>3. atomicGroups[t].state = "Unresolved"
    BY <1>1, <2>1, PendingListed
  <2>4. \A u \in DOMAIN atomicGroups : u # t =>
          u \in DOMAIN atomicGroups' /\ atomicGroups'[u] = atomicGroups[u]
    BY <2>1 DEF Drop
  <2>5. DOMAIN atomicGroups' \subseteq DOMAIN atomicGroups
    BY ZenonT(100), <2>1 DEF Drop
  <2>6. t \in DOMAIN atomicGroups' =>
          /\ N > 1 /\ atomicGroups'[t].ids = SubSeq(ids, 1, N - 1)
          /\ atomicGroups'[t].state = "Unresolved"
    <3>1. atomicGroups[t] \in [state : Outcome \cup {"Unresolved"}, ids : Seq(Nat) \ {<< >>}]
      BY <2>1, GroupFacts
    <3>2. CASE N = 1
      BY ZenonT(100), <2>1, <3>2 DEF Drop
    <3>3. CASE N # 1
      <4>1. atomicGroups'[t] = [atomicGroups[t] EXCEPT !.ids = SubSeq(ids, 1, N - 1)]
        BY <2>1, <3>3
      <4>2. N > 1
        <5>1. N \in Nat /\ N # 0
          BY <2>2
        <5> HIDE DEF N
        <5> QED BY SMTT(100), <5>1, <3>3
      <4> QED BY ZenonT(100), <2>3, <3>1, <4>1, <4>2
    <3> QED BY ZenonT(100), <3>2, <3>3
  <2>7. ListsOwnChunks(t)
    BY <2>1 DEF GroupInv
  <2> HIDE DEF N, ids
  <2>8. t \in DOMAIN atomicGroups' =>
          /\ DOMAIN atomicGroups'[t].ids = 1..(N - 1)
          /\ \A m \in 1..(N - 1) : m \in 1..N /\ atomicGroups'[t].ids[m] = ids[m]
    BY SMTT(100), <2>2, <2>6
  <2>9. ASSUME NEW u \in DOMAIN atomicGroups' PROVE ListsOwnChunks(u)'
    <3>1. CASE u # t
      <4>1. ListsOwnChunks(u) /\ atomicGroups'[u] = atomicGroups[u]
        BY <2>4, <2>5, <3>1 DEF GroupInv
      <4>2. \A k \in DOMAIN batches : batches'[k].group = batches[k].group
        BY ZenonT(100), <1>2, <1>3
      <4> QED BY SMTT(100), <1>1, <1>2, <4>1, <4>2 DEF ListsOwnChunks
    <3>2. CASE u = t
      <4>1. /\ \A m \in 1..N : ids[m] < nextBatch
            /\ \A l, m \in 1..N : l < m => ids[l] < ids[m]
            /\ \A m \in 1..N : ids[m] \in DOMAIN batches =>
                 batches[ids[m]].group # None /\ batches[ids[m]].group.txn = t
            /\ t \notin DOMAIN finalizedGroups
        <5>1. \A v \in DOMAIN finalizedGroups : finalizedGroups[v] # "Unresolved"
          BY SMTT(100), GroupFacts DEF Outcome
        <5> QED BY ZenonT(100), <2>2, <2>3, <2>7, <5>1 DEF ListsOwnChunks, ids
      <4>2. \A k \in DOMAIN batches : batches'[k].group = batches[k].group
        BY ZenonT(100), <1>2, <1>3
      <4>3. /\ \A m \in DOMAIN atomicGroups'[t].ids : atomicGroups'[t].ids[m] < nextBatch'
            /\ \A l, m \in DOMAIN atomicGroups'[t].ids :
                 l < m => atomicGroups'[t].ids[l] < atomicGroups'[t].ids[m]
        BY ZenonT(100), <1>1, <2>8, <3>2, <4>1
      <4>4. \A m \in DOMAIN atomicGroups'[t].ids :
              atomicGroups'[t].ids[m] \in DOMAIN batches' =>
                /\ batches'[atomicGroups'[t].ids[m]].group # None
                /\ batches'[atomicGroups'[t].ids[m]].group.txn = t
        <5> SUFFICES ASSUME NEW m \in DOMAIN atomicGroups'[t].ids,
                            atomicGroups'[t].ids[m] \in DOMAIN batches'
                     PROVE  /\ batches'[atomicGroups'[t].ids[m]].group # None
                            /\ batches'[atomicGroups'[t].ids[m]].group.txn = t
          BY ZenonT(100)
        <5>1. m \in 1..N /\ atomicGroups'[t].ids[m] = ids[m]
          BY ZenonT(100), <2>8, <3>2
        <5>2. ids[m] \in DOMAIN batches
          BY <1>2, <5>1
        <5> QED BY SMTT(100), <4>1, <4>2, <5>1, <5>2
      <4> QED BY <1>1, <2>6, <3>2, <4>1, <4>3, <4>4 DEF ListsOwnChunks
    <3> QED BY <3>1, <3>2
  <2>10. ASSUME NEW k \in DOMAIN batches, batches[k].group # None PROVE ChunkFollows(k)'
    <3>1. ChunkFollows(k) /\ batches'[k].group = batches[k].group
      BY ZenonT(100), <1>2, <1>3, <2>10 DEF GroupInv
    <3>2. CASE batches[k].group.txn # t
      <4>1. k # b
        BY <3>2
      <4>2. \A u \in DOMAIN atomicGroups : u # t => GroupIds(u)' = GroupIds(u)
        BY <2>4 DEF GroupIds
      <4> QED BY <1>2, <2>4, <2>5, <3>1, <3>2, <4>1, <4>2 DEF ChunkFollows
    <3>3. CASE k = b
      <4>1. t \in DOMAIN atomicGroups' => atomicGroups'[t].state = "Unresolved"
        BY <2>6
      <4> QED BY <1>3, <3>3, <4>1 DEF ChunkFollows
    <3>4. CASE batches[k].group.txn = t /\ k # b
      <4>1. GroupIds(t) = {ids[m] : m \in 1..N}
        BY <2>2 DEF GroupIds, ids
      <4>2. CASE t \in DOMAIN atomicGroups'
        <5>1. GroupIds(t)' = {ids[m] : m \in 1..(N - 1)}
          BY ZenonT(100), <2>8, <4>2 DEF GroupIds
        <5>2. k \in GroupIds(t)' <=> k \in GroupIds(t)
          <6>1. ids[N] = b
            BY <2>1 DEF N, ids
          <6>2. ASSUME NEW m \in 1..N, ids[m] = k PROVE m \in 1..(N - 1)
            <7>1. m # N
              BY <6>1, <6>2, <3>4
            <7> QED BY <7>1, <2>2
          <6>3. 1..(N - 1) \subseteq 1..N
            BY <2>2
          <6> QED BY <4>1, <5>1, <6>2, <6>3
        <5> QED BY ZenonT(100), <1>2, <2>1, <2>3, <2>6, <3>1, <3>4, <4>2, <5>2 DEF ChunkFollows
      <4>3. CASE t \notin DOMAIN atomicGroups'
        <5>1. N = 1 /\ ids[1] = b
          BY ZenonT(100), <2>1, <2>2, <4>3 DEF N, ids
        <5>2. k \notin GroupIds(t)
          BY SMTT(100), <3>4, <4>1, <5>1
        <5> QED BY ZenonT(100), <1>2, <3>1, <3>4, <4>3, <5>2 DEF ChunkFollows
      <4> QED BY ZenonT(100), <4>2, <4>3
    <3> QED BY <3>2, <3>3, <3>4
  <2> QED BY ZenonT(100), <1>2, <1>3, <2>9, <2>10 DEF GroupInv
<1> QED BY <1>5, <1>6

\* The outcome of a group reaches every chunk it lists, and no other.
LEMMA FinalizeGroups ==
  ASSUME IndInv, GroupInv, NEW t \in DOMAIN atomicGroups, NEW outcome \in Outcome,
         FinalizeAtomicGroup(t, outcome)
  PROVE  GroupInv'
<1>1. /\ nextBatch' = nextBatch /\ MayFinalize(t, outcome)
      /\ finalizedGroups' = Insert(finalizedGroups, t, outcome)
      /\ atomicGroups' = [atomicGroups EXCEPT ![t].state = outcome]
  BY DEF FinalizeAtomicGroup, sequencerVars
<1>2. /\ DOMAIN batches' = DOMAIN batches
      /\ \A k \in DOMAIN batches : k \notin GroupIds(t) => batches'[k] = batches[k]
      /\ \A k \in DOMAIN batches : k \in GroupIds(t) =>
           batches'[k] = [batches[k] EXCEPT !.status = outcome]
  BY DEF FinalizeAtomicGroup
<1>3. /\ \A k \in DOMAIN batches : batches'[k].group = batches[k].group
      /\ \A k \in DOMAIN batches : k \in GroupIds(t) => batches'[k].status = outcome
  <2>1. \A k \in DOMAIN batches : batches[k] \in BatchRuntime
    BY TypeFacts
  <2> QED BY <1>2, <2>1 DEF BatchRuntime
<1>4. /\ DOMAIN atomicGroups' = DOMAIN atomicGroups
      /\ \A u \in DOMAIN atomicGroups : u # t => atomicGroups'[u] = atomicGroups[u]
      /\ atomicGroups'[t] = [atomicGroups[t] EXCEPT !.state = outcome]
  BY <1>1
<1>5. /\ atomicGroups'[t].state = outcome
      /\ \A u \in DOMAIN atomicGroups : atomicGroups'[u].ids = atomicGroups[u].ids
  <2>1. atomicGroups[t] \in [state : Outcome \cup {"Unresolved"}, ids : Seq(Nat) \ {<< >>}]
    BY GroupFacts
  <2> QED BY <1>4, <2>1
<1>6. \A u \in DOMAIN atomicGroups : GroupIds(u)' = GroupIds(u)
  BY <1>5 DEF GroupIds
<1>7. /\ t \in DOMAIN finalizedGroups' /\ finalizedGroups'[t] = outcome
      /\ \A u : u # t => /\ u \in DOMAIN finalizedGroups' <=> u \in DOMAIN finalizedGroups
                         /\ u \in DOMAIN finalizedGroups => finalizedGroups'[u] = finalizedGroups[u]
  BY <1>1 DEF Insert
<1>8. ASSUME NEW u \in DOMAIN atomicGroups PROVE ListsOwnChunks(u)'
  <2>1. ListsOwnChunks(u)
    BY DEF GroupInv
  <2>2. /\ atomicGroups'[u].ids = atomicGroups[u].ids
        /\ IF u \in DOMAIN finalizedGroups' THEN atomicGroups'[u].state = finalizedGroups'[u]
           ELSE atomicGroups'[u].state = "Unresolved"
    <3>1. CASE u = t
      BY <1>5, <1>7, <3>1
    <3>2. CASE u # t
      BY <1>4, <1>7, <2>1, <3>2 DEF ListsOwnChunks
    <3> QED BY <3>1, <3>2
  <2>3. \A n \in DOMAIN atomicGroups[u].ids : atomicGroups[u].ids[n] \in DOMAIN batches' =>
          /\ batches'[atomicGroups[u].ids[n]].group # None
          /\ batches'[atomicGroups[u].ids[n]].group.txn = u
    BY SMTT(100), <1>2, <1>3, <2>1 DEF ListsOwnChunks
  <2> QED BY <1>1, <2>1, <2>2, <2>3 DEF ListsOwnChunks
<1>9. \A k \in DOMAIN batches : k \in GroupIds(t) => batches[k].group.txn = t
  BY SMTT(100) DEF GroupInv, ListsOwnChunks, GroupIds
<1>10. ASSUME NEW k \in DOMAIN batches, batches[k].group # None PROVE ChunkFollows(k)'
  <2>1. ChunkFollows(k)
    BY <1>10 DEF GroupInv
  <2>2. outcome # "Unresolved"
    BY DEF Outcome
  <2>3. CASE k \in GroupIds(t)
    <3>1. batches'[k].group.txn = t /\ batches'[k].status = outcome
      BY <1>3, <1>9, <2>3
    <3>2. k \in GroupIds(t)' /\ t \in DOMAIN atomicGroups'
      BY <1>4, <1>6, <2>3
    <3> QED BY <1>5, <2>2, <3>1, <3>2 DEF ChunkFollows
  <2>4. CASE k \notin GroupIds(t) /\ batches[k].group.txn = t
    <3>1. batches'[k] = batches[k] /\ batches[k].status = "Aborted"
      BY <1>2, <2>1, <2>4 DEF ChunkFollows
    <3>2. k \notin GroupIds(t)'
      BY <1>6, <2>4
    <3> QED BY <2>4, <3>1, <3>2 DEF ChunkFollows
  <2>5. CASE k \notin GroupIds(t) /\ batches[k].group.txn # t
    BY SMTT(100), <1>2, <1>4, <1>6, <2>1, <2>5 DEF ChunkFollows
  <2> QED BY <2>3, <2>4, <2>5
<1> QED BY <1>2, <1>3, <1>4, <1>8, <1>10 DEF GroupInv

\* Retention forgets a group only when every chunk it lists goes: a list is in the
\* order of reservation, and its last chunk decides.
LEMMA TruncateGroups ==
  ASSUME IndInv, GroupInv, NEW o \in 1..MaxOffset, NEW k \in 0..MaxBatches, Truncate(o, k)
  PROVE  GroupInv'
<1>1. /\ UNCHANGED <<nextBatch, finalizedGroups>>
      /\ atomicGroups' = RetainGroups(atomicGroups, k) /\ k \in Nat
  BY PartitionAssumption DEF Truncate, sequencerVars
<1>2. /\ DOMAIN batches' \subseteq DOMAIN batches
      /\ \A j \in DOMAIN batches' : batches'[j] = batches[j] /\ j \in Nat /\ j >= k
  <2>1. firstKey \in Nat /\ firstKey <= k /\ nextBatch \in Nat
    BY TypeFacts DEF Truncate, MayTruncate, FirstRetained
  <2> QED BY SMTT(100), <2>1, TypeFacts DEF Truncate
<1>3. /\ DOMAIN atomicGroups' \subseteq DOMAIN atomicGroups
      /\ \A u \in DOMAIN atomicGroups' : atomicGroups'[u] = atomicGroups[u]
      /\ \A u \in DOMAIN atomicGroups :
           atomicGroups[u].ids[Len(atomicGroups[u].ids)] >= k /\ atomicGroups[u].ids # << >>
             => u \in DOMAIN atomicGroups'
  BY ZenonT(100), <1>1 DEF RetainGroups
<1>4. \A u \in DOMAIN atomicGroups' : ListsOwnChunks(u)' /\ GroupIds(u)' = GroupIds(u)
  <2> TAKE u \in DOMAIN atomicGroups'
  <2>1. ListsOwnChunks(u) /\ atomicGroups'[u] = atomicGroups[u]
    BY <1>3 DEF GroupInv
  <2> QED BY ZenonT(100), <1>1, <1>2, <2>1 DEF ListsOwnChunks, GroupIds
<1>5. ASSUME NEW u \in DOMAIN atomicGroups, NEW j \in GroupIds(u), j \in Nat, j >= k
      PROVE  u \in DOMAIN atomicGroups'
  <2> PICK ids, N : ids = atomicGroups[u].ids /\ N = Len(ids)
    BY ZenonT(100)
  <2>1. /\ N \in Nat /\ N # 0 /\ DOMAIN ids = 1..N /\ ids # << >>
        /\ \A m \in 1..N : ids[m] \in Nat
    BY GroupFacts
  <2>2. PICK m \in 1..N : ids[m] = j
    BY <2>1 DEF GroupIds
  <2>3. \A l, n \in 1..N : l < n => ids[l] < ids[n]
    BY ZenonT(100), <2>1 DEF GroupInv, ListsOwnChunks
  <2>4. ids[N] >= k
    <3>1. m = N \/ ids[m] < ids[N]
      BY SMTT(100), <2>1, <2>2, <2>3
    <3>2. ids[N] \in Nat
      BY SMTT(100), <2>1
    <3> QED BY SMTT(100), <1>1, <1>5, <2>2, <3>1, <3>2
  <2> QED BY <1>3, <2>1, <2>4
<1>6. ASSUME NEW j \in DOMAIN batches', batches'[j].group # None PROVE ChunkFollows(j)'
  <2>1. ChunkFollows(j) /\ batches'[j] = batches[j]
    BY <1>2, <1>6 DEF GroupInv
  <2>2. \A u \in DOMAIN atomicGroups : j \in GroupIds(u) => u \in DOMAIN atomicGroups'
    BY SMTT(100), <1>2, <1>5
  <2> QED BY ZenonT(100), <1>3, <1>4, <2>1, <2>2 DEF ChunkFollows
<1> QED BY <1>4, <1>6 DEF GroupInv

-----------------------------------------------------------------------------
\* A new partition has no group.
LEMMA InitGroups == Init => GroupInv
BY DEF Init, Empty, GroupInv

\* One case for each command of the coordinator.
LEMMA NextGroups ==
  ASSUME IndInv, GroupInv, [Next]_partitionVars
  PROVE  GroupInv'
<1>1. CASE \E p \in ProducerInputs : \E g \in GroupInputs : \E n \in Counts, e \in LeaderEpochs \cup {None} :
             Reserve(p, g, n, e)
  BY <1>1, ReserveGroups
<1>2. CASE \E b \in inFlight, r \in 1..ReplicationFactor : Complete(b, r)
  BY <1>2, CompleteGroups
<1>3. CASE \E b \in inFlight : FailNotWritten(b)
  BY <1>3, FailNotWrittenGroups
<1>4. CASE \E b \in inFlight : FailAmbiguous(b)
  <2>1. UNCHANGED <<nextBatch, batches, atomicGroups, finalizedGroups>>
    BY <1>4 DEF FailAmbiguous, sequencerVars, groupVars
  <2> QED BY <2>1, ControlGroups
<1>5. CASE \E b \in DOMAIN batches, r \in 1..ReplicationFactor : SetDurableReplicaCount(b, r)
  BY <1>5, SetDurableReplicaCountGroups
<1>6. CASE \E t \in DOMAIN atomicGroups, outcome \in Outcome : FinalizeAtomicGroup(t, outcome)
  BY <1>6, FinalizeGroups
<1>7. CASE \E o \in 1..MaxOffset, k \in 0..MaxBatches : Truncate(o, k)
  BY ZenonT(100), <1>7, TruncateGroups
<1>8. CASE \/ \E generation \in 1..MaxGeneration, isr \in 1..ReplicationFactor :
                UpdateReplicationPolicy(generation, isr)
           \/ \E epoch \in 1..MaxRingEpoch, ring \in Rings : Reconfigure(epoch, ring)
           \/ \E epoch \in LeaderEpochs : ObserveLeaderEpoch(epoch)
           \/ \E mode \in Modes, through \in 1..MaxOffset : WaitUntilVisible(mode, through)
           \/ UNCHANGED partitionVars
  <2>1. UNCHANGED <<nextBatch, batches, atomicGroups, finalizedGroups>>
    BY <1>8 DEF UpdateReplicationPolicy, Reconfigure, ObserveLeaderEpoch, WaitUntilVisible,
                partitionVars, sequencerVars, groupVars
  <2> QED BY <2>1, ControlGroups
<1> QED BY ZenonT(100), <1>1, <1>2, <1>3, <1>4, <1>5, <1>6, <1>7, <1>8 DEF Next

\* The inductive invariant of groups holds in every reachable state.
THEOREM GroupInvariance == Spec => [](IndInv /\ GroupInv)
<1>1. (IndInv /\ GroupInv) /\ [Next]_partitionVars => (IndInv /\ GroupInv)'
  BY NextInv, NextGroups
<1> QED BY InitInv, InitGroups, <1>1, PTL DEF Spec

\* The chunks of an atomic group become readable together or not at all
\* (check_atomic_group, rollback_atomic_chunk, finalize_atomic_group, truncate).
THEOREM GroupsAllOrNothing == Spec => []GroupAllOrNothing
<1>1. IndInv /\ GroupInv => GroupAllOrNothing
  <2> SUFFICES ASSUME IndInv, GroupInv, NEW t \in Txns,
                      NEW j \in DOMAIN batches, batches[j].group # None,
                      batches[j].group.txn = t, batches[j].status = "Committed"
               PROVE  /\ t \in DOMAIN finalizedGroups /\ finalizedGroups[t] = "Committed"
                      /\ t \in DOMAIN atomicGroups
                      /\ \A k \in DOMAIN batches :
                           batches[k].group # None /\ batches[k].group.txn = t =>
                             batches[k].status = IF k \in GroupIds(t) THEN "Committed" ELSE "Aborted"
    BY DEF GroupAllOrNothing
  <2>1. /\ t \in DOMAIN atomicGroups /\ atomicGroups[t].state = "Committed"
    <3>1. ChunkFollows(j)
      BY DEF GroupInv
    <3> QED BY <3>1 DEF ChunkFollows
  <2>2. t \in DOMAIN finalizedGroups /\ finalizedGroups[t] = "Committed"
    <3>1. ListsOwnChunks(t)
      BY <2>1 DEF GroupInv
    <3> QED BY <2>1, <3>1 DEF ListsOwnChunks
  <2>3. ASSUME NEW k \in DOMAIN batches, batches[k].group # None, batches[k].group.txn = t
        PROVE  batches[k].status = IF k \in GroupIds(t) THEN "Committed" ELSE "Aborted"
    <3>1. ChunkFollows(k)
      BY <2>3 DEF GroupInv
    <3> QED BY <2>1, <2>3, <3>1 DEF ChunkFollows
  <2> QED BY <2>1, <2>2, <2>3
<1> QED BY <1>1, GroupInvariance, PTL
=============================================================================
