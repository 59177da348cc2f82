-------------------------- MODULE MCDurablePartition --------------------------
(***************************************************************************)
(* Small instances of DurablePartition for TLC.  A behaviour has one       *)
(* workload, fixed at the start:                                           *)
(*   appends   one producer, a new epoch or a ring change, two restarts;   *)
(*   groups    an atomic group among plain batches, two restarts;          *)
(*   failures  a journal append that fails after it wrote its frame, a     *)
(*             group, one kind of other control command, and one restart.  *)
(***************************************************************************)
EXTENDS DurablePartition

CONSTANTS L1, L2   \* two lanes

TwoLanes == {L1, L2}
TwoLaneRing == <<L1, L2>>
SwappedRings == {<<L2, L1>>}
NoRings == {}

VARIABLE workload

mcVars == <<durableVars, workload>>

NoProducers == DOMAIN producers = {}
NoGroups == DOMAIN atomicGroups = {}
SingleRecords == \A k \in DOMAIN batches : batches[k].count = 1

Within ==
  CASE workload = "appends" ->
         /\ NoGroups /\ policy.generation = 1 /\ nextBatch <= 2 /\ journalFailures = 0
         /\ ringEpoch + leaderEpoch <= 2
    [] workload = "groups" ->
         /\ NoProducers /\ SingleRecords /\ leaderEpoch = 0 /\ ringEpoch = 1
         /\ policy.generation = 1 /\ journalFailures = 0
    [] workload = "failures" ->
         /\ NoProducers /\ SingleRecords /\ leaderEpoch = 0 /\ nextBatch <= 2
         /\ Cardinality({journal[i].kind : i \in DOMAIN journal} \ {"Create", "Group"}) <= 1
         /\ restarts <= 1

MCInit == DurableInit /\ workload \in {"appends", "groups", "failures"} /\ Within
MCNext == DurableNext /\ UNCHANGED workload /\ Within'
MCSpec == MCInit /\ [][MCNext]_mcVars
=============================================================================
