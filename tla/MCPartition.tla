----------------------------- MODULE MCPartition -----------------------------
(***************************************************************************)
(* Small instances of Partition for TLC.  A behaviour has one workload,    *)
(* fixed at the start, that says which requests its clients send:          *)
(*   appends  one producer with retries, new epochs, ring changes and      *)
(*            replication reports;                                         *)
(*   groups   two atomic groups and plain batches, and retention;          *)
(*   readers  parked readers, one group, and a change of the replication   *)
(*            policy.                                                      *)
(***************************************************************************)
EXTENDS Partition

CONSTANTS L1, L2   \* two lanes

TwoLanes == {L1, L2}
TwoLaneRing == <<L1, L2>>
SwappedRings == {<<L2, L1>>}
NoRings == {}

VARIABLE workload

mcVars == <<partitionVars, workload>>

NoProducers == DOMAIN producers = {}
NoGroups == DOMAIN atomicGroups = {}
OneEpoch == leaderEpoch = 0 /\ ringEpoch = 1
OneChange == leaderEpoch + ringEpoch <= 2      \* a new leader or a new ring

Within ==
  CASE workload = "appends" ->
         /\ NoGroups /\ waiters = {} /\ policy = [generation |-> 1, minIsr |-> 2]
         /\ nextBatch <= 3 /\ nextOffset <= 3 /\ OneChange
    [] workload = "groups" ->
         /\ NoProducers /\ OneEpoch /\ waiters = {} /\ policy = [generation |-> 1, minIsr |-> 1]
         /\ \A k \in DOMAIN batches : batches[k].count = 1 /\ batches[k].replicas <= 1
    [] workload = "readers" ->
         /\ NoProducers /\ OneEpoch /\ nextBatch <= 2 /\ nextOffset <= 3
         /\ Cardinality(DOMAIN atomicGroups) <= 1 /\ \A w \in waiters : w.through <= 3

MCInit == Init /\ workload \in {"appends", "groups", "readers"} /\ Within
MCNext == Next /\ UNCHANGED workload /\ Within'
MCSpec == MCInit /\ [][MCNext]_mcVars

\* Every append call reports its result, see FairSpec.
MCFairSpec ==
  /\ MCSpec
  /\ \A b \in 0..(MaxBatches - 1) : WF_mcVars(workload = "readers" /\ Settle(b) /\ UNCHANGED workload)
=============================================================================
