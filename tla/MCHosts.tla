------------------------------- MODULE MCHosts -------------------------------
(***************************************************************************)
(* Small instances of what hosts, clients and derived stores see of the    *)
(* engine.  A behaviour follows one of them, the subject.                  *)
(***************************************************************************)
EXTENDS RecoveryCensus, RuntimeLifecycle, KafkaConnection, ClientSession,
        OriginProgress, QueryLineage, TLC

VARIABLE subject

mcVars == <<subject, censusVars, runtimeVars, kafkaVars, clientVars, originVars, lvars>>

-----------------------------------------------------------------------------
\* Recovery: the local directory lost, half there, or there with a torn pack; an
\* object tier of two generations; limits that suffice and limits that do not.
CensusCase(files, limit, route, engine, crash, others) ==
  [disk |-> files @@ [k \in Keys |-> Absent], limit |-> limit, route |-> route,
   engine |-> engine, crashes |-> crash, foreign |-> others]
LocalLost ==
  (KCurrent(0) :> 1) @@ (KManifest(0, 1) :> {<<0, "a">>, <<1, "b">>}) @@ (KObject(0, 0) :> "a")
    @@ (KObject(0, 1) :> "b") @@ (KManifest(0, 2) :> {<<2, "c">>}) @@ (KObject(0, 2) :> "c")
LocalHalf ==
  (KDir(0) :> "dir") @@ (KPack(0, 0) :> "a") @@ (KPending(0, 1) :> "b") @@ (KPack(0, 2) :> "torn")
SecondShard == (KDir(1) :> "dir") @@ (KPack(1, 0) :> "torn") @@ (KJournal :> "kept")
LocalDiffers == (KPack(0, 0) :> "b") @@ (KDir(0) :> "dir") @@ LocalLost
ManifestLost == (KManifest(0, 1) :> Absent) @@ LocalLost
Recoveries ==
  {CensusCase(<< >>, 30, "owned", TRUE, 1, 0),
   CensusCase(LocalLost, 96, "ordinary", TRUE, 1, 0),
   CensusCase(LocalLost, 80, "ordinary", TRUE, 0, 1),
   CensusCase(LocalLost @@ SecondShard, 112, "owned", TRUE, 1, 0),
   CensusCase(LocalLost @@ LocalHalf, 120, "ordinary", TRUE, 1, 0),
   CensusCase(LocalHalf @@ SecondShard, 60, "ordinary", FALSE, 1, 0),
   CensusCase(LocalDiffers, 80, "ordinary", TRUE, 0, 0),
   CensusCase(ManifestLost, 80, "ordinary", TRUE, 0, 0)}

\* Kafka requests: several record sets in one produce, the three acks, two
\* partitions in one request, one of them remote, a sequence with a hole.
RecordSet(base, count) == [base |-> base, count |-> count, deltas |-> [i \in 1..count |-> i - 1]]
Produce(acks, parts) == [kind |-> "produce", acks |-> acks, parts |-> parts]
KafkaPlans ==
  {<<Produce(-1, << <<"x", <<RecordSet(0, 2), RecordSet(2, 1)>> >> >>),
     Produce(1, << <<"x", <<RecordSet(3, 1)>> >> >>),
     [kind |-> "fetch", topic |-> "x", from |-> 1]>>,
   <<Produce(0, << <<"x", <<RecordSet(0, 1)>> >> >>),
     Produce(-1, << <<"y", <<RecordSet(0, 1)>> >>, <<"x", <<RecordSet(1, 1)>> >> >>),
     [kind |-> "metadata"]>>,
   <<Produce(-1, << <<"x", <<RecordSet(0, 1)>> >> >>),
     [kind |-> "offsets", topic |-> "x", timestamp |-> -1],
     [kind |-> "describe", topic |-> "y"]>>,
   <<[kind |-> "create", topic |-> "y"],
     Produce(1, << <<"x", <<RecordSet(0, 1), RecordSet(2, 1)>> >> >>),
     [kind |-> "unsupported"]>>}

\* Records of the origin's batches.
OriginBatches == <<2, 1, 2>>

-----------------------------------------------------------------------------
Subjects == {"census", "runtime", "kafka", "client", "origin", "lineage"}

MCInit ==
  /\ subject \in Subjects
  /\ CensusInit /\ RuntimeInit /\ KafkaInit /\ ClientInit /\ OriginInit /\ LineageInit
  /\ subject # "census" => way.limit = 30
  /\ subject # "kafka" => kplan = CHOOSE p \in KafkaPlans : TRUE

\* The step A of one of them leaves the others alone.
Recovers(A) == subject = "census" /\ A /\ UNCHANGED <<subject, runtimeVars, kafkaVars,
              clientVars, originVars, lvars>>
Runtimes(A) == subject = "runtime" /\ A /\ UNCHANGED <<subject, censusVars, kafkaVars,
              clientVars, originVars, lvars>>
Kafkas(A) == subject = "kafka" /\ A /\ UNCHANGED <<subject, censusVars, runtimeVars,
              clientVars, originVars, lvars>>
Clients(A) == subject = "client" /\ A /\ UNCHANGED <<subject, censusVars, runtimeVars,
              kafkaVars, originVars, lvars>>
Origins(A) == subject = "origin" /\ A /\ UNCHANGED <<subject, censusVars, runtimeVars,
              kafkaVars, clientVars, lvars>>
Lineages(A) == subject = "lineage" /\ A /\ UNCHANGED <<subject, censusVars, runtimeVars,
              kafkaVars, clientVars, originVars>>

MCNext ==
  \/ Recovers(CensusNext)
  \/ Runtimes(RuntimeNext /\ engineFailures' + worldChanges' <= 1)
  \/ Kafkas(KafkaNext /\ UNCHANGED kplan)
  \/ Clients(ClientNext)
  \/ Origins(OriginNext)
  \/ Lineages(LineageNext)

MCSpec == MCInit /\ [][MCNext]_mcVars
=============================================================================
