--------------------------- MODULE KafkaConnection ---------------------------
(***************************************************************************)
(* The Kafka front end of crates/shard-stream-kafka: connections that read  *)
(* pipelined frames, handle one request at a time on a blocking thread and  *)
(* hand responses to a bounded writer; the broker's produce, fetch and      *)
(* metadata handlers; the topic registry thread; and an idempotent client   *)
(* that pipelines requests, loses connections and resends what was not      *)
(* answered while the old connection is still being served.                 *)
(*                                                                          *)
(* The engine is external and modelled by what the front end uses of it:    *)
(* append with producer idempotence, wait_until_visible, fetch of the       *)
(* replicated prefix.                                                       *)
(***************************************************************************)
EXTENDS Integers, Sequences, FiniteSets, SequencesExt

CONSTANTS
    RequestPlans,   \* what the client may ask, in order: sequences of KafkaRequest
    Conns,          \* connection numbers 1..n, used one after the other
    Topics,         \* topics, one partition each
    RemoteTopics,   \* topics this broker does not lead
    WriteSlots,     \* CONNECTION_WRITE_QUEUE_SLOTS
    RegistrySlots,  \* TOPIC_REGISTRY_QUEUE_SLOTS
    MaxSequence,    \* i32::MAX of the model
    MaxKafkaFaults  \* bound on the engine's refusals and failed waits

(* A produce carries one list of record batches per topic.  A record batch  *)
(* is [base, count, deltas]: base_sequence and record_count of its header   *)
(* and the offset deltas of the records framed in it.                       *)
RecordBatches == Seq([base : Nat, count : Nat, deltas : Seq(Nat)])
KafkaRequest ==
    [kind : {"produce"}, acks : {-1, 0, 1}, parts : Seq(Topics \X RecordBatches)]
    \union [kind : {"fetch"}, topic : Topics, from : Nat]
    \union [kind : {"metadata"}] \union [kind : {"describe", "create"}, topic : Topics]
    \union [kind : {"offsets"}, topic : Topics, timestamp : {-2, -1, 0}]
    \union [kind : {"unsupported"}]

ASSUME KafkaAssumption ==
    /\ RemoteTopics \subseteq Topics
    /\ {WriteSlots, RegistrySlots} \subseteq Nat \ {0}
    /\ {MaxSequence, MaxKafkaFaults} \subseteq Nat

VARIABLES
    kplan,      \* the client's requests, chosen at the start
    kclient,    \* the client: connection, requests sent and awaited, replies
    kconns,     \* the connections' tasks
    kstore,     \* the engine's batches of each topic: Seq([first, sets])
    kvisible,   \* number of replicated batches of each topic
    kregistry,  \* the registry thread: command queue and names
    kfaults

kafkaVars == <<kplan, kclient, kconns, kstore, kvisible, kregistry, kfaults>>

-----------------------------------------------------------------------------
(* Mutant: the batches need not continue one sequence. *)
UpdateProducerUnchecked(aggregate, header) ==
    [mode |-> "idempotent",
     first |-> IF aggregate.mode = "unknown" THEN header.base ELSE aggregate.first,
     next |-> header.base + header.count, records |-> aggregate.records + header.count]

(* validate_record_data and inspect_record: the records framed in a batch   *)
(* are as many as its header says and number 0, 1, 2 and so on.             *)
ValidFrames(header) ==
    header.count > 0 /\ header.deltas = [i \in 1..header.count |-> i - 1]

(* inspect_record_batches: update_producer over the batch headers.  All the *)
(* batches of one produce must continue one sequence, and a sequence that   *)
(* passes i32::MAX is refused; what the engine sees is the first sequence   *)
(* and the number of records.                                               *)
UpdateProducer(aggregate, header) ==
    LET last == header.base + header.count - 1
        fresh == aggregate.mode = "unknown"
    IN  [mode |-> IF \/ aggregate.mode = "invalid" \/ last > MaxSequence
                     \/ ~ValidFrames(header)
                     \/ (~fresh /\ aggregate.next # header.base)
                  THEN "invalid" ELSE "idempotent",
         first |-> IF fresh THEN header.base ELSE aggregate.first,
         next |-> last + 1,
         records |-> aggregate.records + header.count]

(* No record at all leaves the producer unknown, which is refused too. *)
InspectRecordBatches(batches) ==
    FoldLeft(UpdateProducer, [mode |-> "unknown", first |-> 0, next |-> 0, records |-> 0], batches)

SequencesOf(set) == [i \in 1..set.count |-> set.base + i - 1]
RecordsOf(sets) == FoldLeft(LAMBDA s, set : s \o SequencesOf(set), <<>>, sets)
AllRecords(t) == FoldLeft(LAMBDA s, b : s \o RecordsOf(b.sets), <<>>, kstore[t])

(* Mutant: every record set starts over at the batch's first offset. *)
EncodeFetchedPerSet(batches) ==
    LET Numbered(first, set) == [i \in 1..set.count |->
                           [offset |-> first + i - 1, sequence |-> set.base + i - 1]]
        OfBatch(b) == FoldLeft(LAMBDA s, set : s \o Numbered(b.first, set), <<>>, b.sets)
    IN  FoldLeft(LAMBDA s, b : s \o OfBatch(b), <<>>, batches)

(* encode_fetched_records: the records of each stored batch are decoded,    *)
(* numbered on from the batch's first offset and encoded again.             *)
EncodeFetched(batches) ==
    LET Numbered(b) == [i \in 1..Len(RecordsOf(b.sets)) |->
                           [offset |-> b.first + i - 1, sequence |-> RecordsOf(b.sets)[i]]]
    IN  FoldLeft(LAMBDA s, b : s \o Numbered(b), <<>>, batches)

-----------------------------------------------------------------------------
(* The engine.  A batch whose sequences are all stored answers the offset   *)
(* it has; one that skips ahead, or overlaps without matching, is refused.  *)
NextOffset(t) == Len(AllRecords(t))
NextSequence(t) ==
    IF kstore[t] = <<>> THEN 0 ELSE AllRecords(t)[NextOffset(t)] + 1
StoredAt(t, producer) ==
    {b \in ToSet(kstore[t]) : /\ RecordsOf(b.sets)[1] = producer.first
                              /\ Len(RecordsOf(b.sets)) = producer.records}

-----------------------------------------------------------------------------
NewConn == [state |-> "new", wire |-> <<>>, partial |-> FALSE, eof |-> FALSE,
            at |-> "read", request |-> 0, part |-> 0, results |-> <<>>, out |-> <<>>]

KafkaInit ==
    /\ kplan \in RequestPlans
    /\ kclient = [conn |-> 0, next |-> 1, awaiting |-> <<>>, replies |-> <<>>, lost |-> FALSE]
    /\ kconns = [c \in Conns |-> NewConn]
    /\ kstore = [t \in Topics |-> <<>>]
    /\ kvisible = [t \in Topics |-> 0]
    /\ kregistry = [queue |-> <<>>, names |-> {}]
    /\ kfaults = 0

Requests == kplan
Req(c) == Requests[kconns[c].request]
At(c, at) == kconns[c].state = "open" /\ kconns[c].at = at

(* A reply is answered in the client's order; replies are kept in a sequence *)
(* of [id, result].                                                          *)
Answered == {kclient.replies[i].id : i \in 1..Len(kclient.replies)}

(* serve: the listener accepts and spawns the connection's task. *)
Accept(c) ==
    /\ kclient.conn = 0 /\ kconns[c].state = "new"
    /\ \A d \in Conns : d < c => kconns[d].state # "new"
    /\ kclient' = [kclient EXCEPT !.conn = c, !.awaiting = <<>>,
                   !.next = IF \E i \in 1..Len(Requests) : i \notin Answered
                            THEN CHOOSE i \in 1..Len(Requests) :
                                    i \notin Answered /\ 1..(i - 1) \subseteq Answered
                            ELSE Len(Requests) + 1]
    /\ kconns' = [kconns EXCEPT ![c].state = "open"]
    /\ UNCHANGED <<kstore, kvisible, kregistry, kfaults>>

NeedsReply(r) == ~(r.kind = "produce" /\ r.acks = 0)

ClientSends ==
    /\ kclient.conn # 0 /\ kclient.next <= Len(Requests)
    /\ kconns' = [kconns EXCEPT ![kclient.conn].wire = Append(@, kclient.next)]
    /\ kclient' =
         LET id == kclient.next
         IN  [kclient EXCEPT !.next = id + 1,
              !.awaiting = IF NeedsReply(Requests[id]) THEN Append(@, id) ELSE @,
              !.replies = IF NeedsReply(Requests[id]) THEN @
                          ELSE Append(@, [id |-> id, error |-> "unanswered", results |-> <<>>])]
    /\ UNCHANGED <<kstore, kvisible, kregistry, kfaults>>

(* The connection is lost: some of what was sent never arrives, the last    *)
(* frame perhaps in part, and no later response reaches the client.         *)
ConnectionLost ==
    /\ kclient.conn # 0
    /\ \E d \in Conns : kconns[d].state = "new"
    /\ \E n \in 0..Len(kconns[kclient.conn].wire), half \in BOOLEAN :
          /\ half => n < Len(kconns[kclient.conn].wire)
          /\ kconns' = [kconns EXCEPT ![kclient.conn].wire = SubSeq(@, 1, n),
                                      ![kclient.conn].partial = half,
                                      ![kclient.conn].eof = TRUE]
    /\ kclient' = [kclient EXCEPT !.conn = 0]
    /\ UNCHANGED <<kstore, kvisible, kregistry, kfaults>>

(* A response reaches the client.  An error answer makes it reconnect and   *)
(* resend from that request on.                                             *)
Deliver(c) ==
    /\ kconns[c].out # <<>>
    /\ kconns' = [kconns EXCEPT ![c].out = Tail(@)]
    /\ LET reply == Head(kconns[c].out)
       IN  IF kclient.conn # c THEN UNCHANGED kclient
           ELSE IF kclient.awaiting = <<>> \/ Head(kclient.awaiting) # reply.id
           THEN kclient' = [kclient EXCEPT !.lost = TRUE]
           ELSE IF reply.error = "none"
           THEN kclient' = [kclient EXCEPT !.awaiting = Tail(@), !.replies = Append(@, reply)]
           ELSE /\ kclient' = [kclient EXCEPT !.conn = 0]
    /\ UNCHANGED <<kstore, kvisible, kregistry, kfaults>>

-----------------------------------------------------------------------------
(* read_kafka_frame and the decoding in handle_connection.  A version that  *)
(* is not advertised stops the connection, with its queued responses.       *)
TakeFrame(c) ==
    /\ At(c, "read")
    /\ kconns[c].wire # <<>>
    /\ LET id == Head(kconns[c].wire)
       IN  kconns' = [kconns EXCEPT
             ![c].wire = Tail(@), ![c].request = id, ![c].part = 1, ![c].results = <<>>,
             ![c].at = CASE Requests[id].kind = "unsupported" -> "stop"
                         [] Requests[id].kind \in {"produce", "fetch", "describe", "offsets"} -> "insert"
                         [] Requests[id].kind = "create" -> "create"
                         [] Requests[id].kind = "metadata" -> "list"]
    /\ UNCHANGED <<kclient, kstore, kvisible, kregistry, kfaults>>

(* The peer closed: with half a frame buffered the task fails, otherwise it *)
(* drains its writer first.                                                 *)
EndOfStream(c) ==
    /\ At(c, "read")
    /\ kconns[c].wire = <<>> /\ kconns[c].eof
    /\ kconns' = [kconns EXCEPT ![c].at = IF kconns[c].partial THEN "stop" ELSE "drain"]
    /\ UNCHANGED <<kclient, kstore, kvisible, kregistry, kfaults>>

Stop(c) ==
    /\ At(c, "stop") \/ (At(c, "drain") /\ kconns[c].out = <<>>)
    /\ kconns' = [kconns EXCEPT ![c] = [NewConn EXCEPT !.state = "closed"]]
    /\ kclient' = IF kclient.conn = c THEN [kclient EXCEPT !.conn = 0] ELSE kclient
    /\ UNCHANGED <<kstore, kvisible, kregistry, kfaults>>

(* KnownTopics::insert of the topic being handled: a send that blocks while *)
(* the registry's queue is full.                                            *)
TopicOf(c) == IF Req(c).kind = "produce" THEN Req(c).parts[kconns[c].part][1] ELSE Req(c).topic

InsertTopic(c) ==
    /\ At(c, "insert")
    /\ Len(kregistry.queue) < RegistrySlots
    /\ kregistry' = [kregistry EXCEPT !.queue = Append(@, <<"insert", TopicOf(c)>>)]
    /\ kconns' = [kconns EXCEPT ![c].at = IF Req(c).kind = "create" THEN "respond" ELSE "engine"]
    /\ UNCHANGED <<kclient, kstore, kvisible, kfaults>>

(* KnownTopics::list: the command is queued and its answer awaited. *)
ListTopics(c) ==
    /\ At(c, "list")
    /\ Len(kregistry.queue) < RegistrySlots
    /\ kregistry' = [kregistry EXCEPT !.queue = Append(@, <<"list", c>>)]
    /\ kconns' = [kconns EXCEPT ![c].at = "listing"]
    /\ UNCHANGED <<kclient, kstore, kvisible, kfaults>>

(* run_topic_registry: one command; the topics known go to the lister,      *)
(* which puts them in its metadata response.                                *)
RegistryRuns ==
    /\ kregistry.queue # <<>>
    /\ LET command == Head(kregistry.queue)
       IN  IF command[1] = "insert"
           THEN /\ kregistry' = [queue |-> Tail(kregistry.queue),
                                 names |-> kregistry.names \union {command[2]}]
                /\ UNCHANGED kconns
           ELSE /\ kregistry' = [kregistry EXCEPT !.queue = Tail(@)]
                /\ kconns' = [kconns EXCEPT ![command[2]].results = <<kregistry.names>>,
                                            ![command[2]].at = "respond"]
    /\ UNCHANGED <<kclient, kstore, kvisible, kfaults>>

(* create_topics: the admin creates the topic (asked for again it answers   *)
(* an error), and on success the name is inserted.                          *)
CreateTopic(c, created) ==
    /\ At(c, "create")
    /\ kconns' = [kconns EXCEPT ![c].at = IF created THEN "insert" ELSE "respond",
                                ![c].results = <<created>>]
    /\ UNCHANGED <<kclient, kstore, kvisible, kregistry, kfaults>>

-----------------------------------------------------------------------------
PartDone(c, error, base) ==
    kconns' = [kconns EXCEPT
        ![c].results = Append(@, [error |-> error, base |-> base]),
        ![c].part = IF @ < Len(Req(c).parts) THEN @ + 1 ELSE @,
        ![c].at = IF kconns[c].part < Len(Req(c).parts) THEN "insert" ELSE "respond"]

(* produce for one partition: leadership, then append_kafka's validation.   *)
ProduceRefused(c) ==
    /\ At(c, "engine") /\ Req(c).kind = "produce"
    /\ LET part == Req(c).parts[kconns[c].part]
       IN  \/ part[1] \in RemoteTopics /\ PartDone(c, "NotLeaderOrFollower", -1)
           \/ /\ part[1] \notin RemoteTopics /\ InspectRecordBatches(part[2]).mode # "idempotent"
              /\ PartDone(c, "InvalidRecord", -1)
    /\ UNCHANGED <<kclient, kstore, kvisible, kregistry, kfaults>>

(* engine.append of the inspected records.                                  *)
EngineAppends(c) ==
    /\ At(c, "engine") /\ Req(c).kind = "produce"
    /\ LET part == Req(c).parts[kconns[c].part]
           topic == part[1]
           producer == InspectRecordBatches(part[2])
       IN  /\ topic \notin RemoteTopics /\ producer.mode = "idempotent"
           /\ \/ /\ producer.first = NextSequence(topic)
                 /\ kstore' = [kstore EXCEPT ![topic] =
                       Append(@, [first |-> NextOffset(topic), sets |-> part[2]])]
                 /\ kconns' = [kconns EXCEPT ![c].at = "visible"]
              \/ /\ producer.first # NextSequence(topic)
                 /\ UNCHANGED kstore
                 /\ IF StoredAt(topic, producer) # {}
                    THEN kconns' = [kconns EXCEPT ![c].at = "visible"]
                    ELSE PartDone(c, "OutOfOrderSequenceNumber", -1)
    /\ UNCHANGED <<kclient, kvisible, kregistry, kfaults>>

(* The engine refuses for load before it stores anything. *)
EngineThrottles(c) ==
    /\ At(c, "engine") /\ Req(c).kind = "produce"
    /\ kfaults < MaxKafkaFaults /\ kfaults' = kfaults + 1
    /\ PartDone(c, "ThrottlingQuotaExceeded", -1)
    /\ UNCHANGED <<kclient, kstore, kvisible, kregistry>>

(* append_kafka's wait_until_visible: of the ordered log for acks 0 and 1,  *)
(* of the replicated log for acks -1.                                       *)
IsReplicated(topic, batch) == \E i \in 1..kvisible[topic] : kstore[topic][i] = batch

(* Mutant: the answer does not wait for the replicated log. *)
BecomesVisibleAtOnce(c) ==
    /\ At(c, "visible")
    /\ LET part == Req(c).parts[kconns[c].part]
           batch == CHOOSE b \in StoredAt(part[1], InspectRecordBatches(part[2])) : TRUE
       IN  PartDone(c, "none", batch.first)
    /\ UNCHANGED <<kclient, kstore, kvisible, kregistry, kfaults>>

BecomesVisible(c) ==
    /\ At(c, "visible")
    /\ LET part == Req(c).parts[kconns[c].part]
           batch == CHOOSE b \in StoredAt(part[1], InspectRecordBatches(part[2])) : TRUE
       IN  /\ Req(c).acks = -1 => IsReplicated(part[1], batch)
           /\ PartDone(c, "none", batch.first)
    /\ UNCHANGED <<kclient, kstore, kvisible, kregistry, kfaults>>

(* The wait fails: the records stay appended. *)
VisibilityFails(c) ==
    /\ At(c, "visible")
    /\ kfaults < MaxKafkaFaults /\ kfaults' = kfaults + 1
    /\ PartDone(c, "NotEnoughReplicas", -1)
    /\ UNCHANGED <<kclient, kstore, kvisible, kregistry>>

(* fetch_partition: the batches that reach the offset, whole, up to the     *)
(* replicated high watermark.                                               *)
FetchPartition(c) ==
    /\ At(c, "engine") /\ Req(c).kind = "fetch"
    /\ LET t == Req(c).topic
           Reaches(b) == b.first + Len(RecordsOf(b.sets)) > Req(c).from
           found == SelectSeq(SubSeq(kstore[t], 1, kvisible[t]), Reaches)
       IN  kconns' = [kconns EXCEPT ![c].at = "respond",
             ![c].results = IF t \in RemoteTopics THEN <<<<>>>>
                            ELSE <<EncodeFetched(found)>>]
    /\ UNCHANGED <<kclient, kstore, kvisible, kregistry, kfaults>>

(* list_offsets: the start of the log for -2, the replicated high watermark *)
(* for -1, and no other timestamp; metadata of a named topic: whether the   *)
(* engine has partitions of it.                                             *)
ReplicatedEnd(t) ==
    Len(FoldLeft(LAMBDA s, b : s \o RecordsOf(b.sets), <<>>, SubSeq(kstore[t], 1, kvisible[t])))

ListOffsets(c) ==
    /\ At(c, "engine") /\ Req(c).kind = "offsets"
    /\ LET r == Req(c)
       IN  kconns' = [kconns EXCEPT ![c].at = "respond", ![c].results =
             <<IF r.topic \in RemoteTopics \/ r.timestamp \notin {-2, -1} THEN -1
               ELSE IF r.timestamp = -2 THEN 0 ELSE ReplicatedEnd(r.topic)>>]
    /\ UNCHANGED <<kclient, kstore, kvisible, kregistry, kfaults>>

DescribeTopic(c) ==
    /\ At(c, "engine") /\ Req(c).kind = "describe"
    /\ kconns' = [kconns EXCEPT ![c].at = "respond", ![c].results = <<Req(c).topic \in Topics>>]
    /\ UNCHANGED <<kclient, kstore, kvisible, kregistry, kfaults>>

(* The replicated watermark advances. *)
Replicate(t) ==
    /\ kvisible[t] < Len(kstore[t])
    /\ kvisible' = [kvisible EXCEPT ![t] = @ + 1]
    /\ UNCHANGED <<kclient, kconns, kstore, kregistry, kfaults>>

(* encode_response and the hand-off to the writer, which blocks while its   *)
(* queue is full; a produce with acks 0 has no response.                    *)
Failed(r, results) ==
    r.kind = "produce" /\ \E i \in 1..Len(results) :
        results[i].error \in {"OutOfOrderSequenceNumber", "ThrottlingQuotaExceeded", "NotEnoughReplicas"}

Respond(c) ==
    /\ At(c, "respond")
    /\ ~NeedsReply(Req(c)) \/ Len(kconns[c].out) < WriteSlots
    /\ kconns' = [kconns EXCEPT
          ![c].at = "read",
          ![c].out = IF NeedsReply(Req(c))
                     THEN Append(@, [id |-> kconns[c].request, results |-> kconns[c].results,
                                     error |-> IF Failed(Req(c), kconns[c].results)
                                               THEN "retry" ELSE "none"])
                     ELSE @]
    /\ UNCHANGED <<kclient, kstore, kvisible, kregistry, kfaults>>

KafkaNext ==
    \/ ClientSends \/ ConnectionLost \/ RegistryRuns
    \/ \E c \in Conns :
        \/ Accept(c) \/ Deliver(c) \/ TakeFrame(c) \/ EndOfStream(c) \/ Stop(c)
        \/ InsertTopic(c) \/ ListTopics(c) \/ (\E b \in BOOLEAN : CreateTopic(c, b))
        \/ ProduceRefused(c) \/ EngineAppends(c) \/ EngineThrottles(c)
        \/ BecomesVisible(c) \/ VisibilityFails(c) \/ FetchPartition(c)
        \/ ListOffsets(c) \/ DescribeTopic(c) \/ Respond(c)
    \/ \E t \in Topics : Replicate(t)

KafkaSpec == KafkaInit /\ [][KafkaNext /\ UNCHANGED kplan]_kafkaVars

-----------------------------------------------------------------------------
(* The client's records are in the log once each and in sequence, however   *)
(* often it lost its connection and resent them while the connection it     *)
(* left was still being served.                                             *)
SequencesOnce == \A t \in Topics : \A i \in 1..NextOffset(t) : AllRecords(t)[i] = i - 1

(* A produce answered without error names the offset its records have, and  *)
(* with acks -1 they are replicated by then: a fetch that follows sees them.*)
AckedReadable ==
    \A i \in 1..Len(kclient.replies) :
        LET reply == kclient.replies[i]
            r == Requests[reply.id]
        IN  (r.kind = "produce" /\ reply.error = "none") =>
            \A p \in 1..Len(reply.results) : reply.results[p].error = "none" =>
                \E b \in 1..Len(kstore[r.parts[p][1]]) :
                    LET batch == kstore[r.parts[p][1]][b]
                    IN  /\ batch.first = reply.results[p].base
                        /\ RecordsOf(batch.sets) = RecordsOf(r.parts[p][2])
                        /\ r.acks = -1 => b <= kvisible[r.parts[p][1]]

(* Every fetched record carries the offset it has in the partition, through *)
(* stored batches of several record sets.                                   *)
FetchedOffsetsExact ==
    \A i \in 1..Len(kclient.replies) :
        LET reply == kclient.replies[i]
            r == Requests[reply.id]
        IN  (r.kind = "fetch" /\ r.topic \notin RemoteTopics) =>
            \A k \in 1..Len(reply.results[1]) :
                LET record == reply.results[1][k]
                IN  AllRecords(r.topic)[record.offset + 1] = record.sequence

(* Responses come back in the order of their requests, with unanswered      *)
(* produces between them, so a client never meets a correlation id it does  *)
(* not expect; and an answer reflects every request answered before it: a   *)
(* list names the topics of earlier produces, and the latest offset lies    *)
(* behind the records of an earlier produce with acks -1.                   *)
RepliesInOrder ==
    /\ ~kclient.lost
    /\ \A i, j \in 1..Len(kclient.replies) :
          LET a == Requests[kclient.replies[i].id]
              b == Requests[kclient.replies[j].id]
          IN  (i < j /\ a.kind = "produce" /\ a.acks # 0) =>
              \A p \in 1..Len(a.parts) :
                 /\ b.kind = "metadata" => a.parts[p][1] \in kclient.replies[j].results[1]
                 /\ (b.kind = "offsets" /\ b.topic = a.parts[p][1] /\ b.timestamp = -1 /\ a.acks = -1) =>
                       kclient.replies[j].results[1] > kclient.replies[i].results[p].base

(* What the front end promises a producer and a consumer together.          *)
KafkaSafe == SequencesOnce /\ AckedReadable /\ FetchedOffsetsExact /\ RepliesInOrder

=============================================================================
