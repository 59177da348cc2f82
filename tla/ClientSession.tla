---------------------------- MODULE ClientSession ----------------------------
(***************************************************************************)
(* The Rust client of crates/shard-stream-client against the REST handlers  *)
(* of crates/shard-stream-server: a Producer that retries an append under   *)
(* one request id and sequence, and a LogicalConsumer whose cursor lives    *)
(* behind a mutex that is not held while a fetch is on the wire.  Requests  *)
(* and responses are lost, a request outlives the call that sent it, and    *)
(* futures are dropped at their awaits.                                     *)
(*                                                                          *)
(* The engine is external: append with producer idempotence, fetch of a     *)
(* contiguous prefix, retention.  The public server's bindings always have  *)
(* data generation 1, so the client's refresh of a stale one cannot happen  *)
(* here and is left out.                                                    *)
(***************************************************************************)
EXTENDS Naturals, Sequences, FiniteSets

CONSTANTS
    Payloads,       \* what the host appends
    Fetchers,       \* tasks that share one LogicalConsumer
    MaxRetries,     \* ClientConfig.max_retries
    MaxRequests,    \* bound on the appends the host asks for
    MaxFetches,     \* bound on the fetches
    MaxEpoch,       \* bound on set_epoch
    MaxLost,        \* bound on lost messages and refusals for load
    MaxCancels,     \* bound on dropped futures
    MaxRetention,   \* bound on advance_retention
    NoCursor

ASSUME ClientAssumption ==
    {MaxRetries, MaxRequests, MaxFetches, MaxEpoch, MaxLost, MaxCancels, MaxRetention} \subseteq Nat

VARIABLES
    producer,   \* Producer: epoch, next_sequence
    pcall,      \* the append under way
    appends,    \* requests of the producer anywhere between it and the engine
    answers,    \* responses on their way back
    requestIds, \* next_request_id
    elog,       \* the engine's batches: [epoch, sequence, payload]
    retainedStart,   \* retention floor
    receipts,   \* receipts returned to the host
    cursor,     \* LogicalConsumer.cursor
    fcalls,     \* the fetch of each task
    delivered,  \* offsets of the pages returned to the host
    dropped,    \* offsets of pages dropped after the cursor was stored
    lost, fetches, cancels

clientVars == <<producer, pcall, appends, answers, requestIds, elog, retainedStart, receipts,
                cursor, fcalls, delivered, dropped, lost, fetches, cancels>>
producerVars == <<producer, pcall, appends, answers, requestIds, receipts>>
consumerVars == <<cursor, fcalls, delivered, dropped, fetches, cancels>>

NoCall == [at |-> "idle", id |-> 0, epoch |-> 0, sequence |-> 0, payload |-> "none", attempt |-> 0]
NoFetch == [at |-> "idle", from |-> 0, last |-> 0, next |-> 0]

ClientInit ==
    /\ producer = [epoch |-> 0, next |-> 0]
    /\ pcall = NoCall /\ appends = {} /\ answers = {} /\ requestIds = 0
    /\ elog = <<>> /\ retainedStart = 0 /\ receipts = {}
    /\ cursor = NoCursor /\ fcalls = [f \in Fetchers |-> NoFetch]
    /\ delivered = {} /\ dropped = {}
    /\ lost = 0 /\ fetches = 0 /\ cancels = 0

-----------------------------------------------------------------------------
(* Producer::append up to its first send: the sequence is the producer's    *)
(* next one, the request id and the event id are fixed for all attempts.    *)
AppendBegin(payload) ==
    /\ pcall.at = "idle" /\ requestIds < MaxRequests
    /\ requestIds' = requestIds + 1
    /\ pcall' = [at |-> "sent", id |-> requestIds', epoch |-> producer.epoch,
                 sequence |-> producer.next, payload |-> payload, attempt |-> 0]
    /\ appends' = appends \union {pcall'}
    /\ UNCHANGED <<producer, answers, elog, retainedStart, receipts, consumerVars, lost>>

(* The loop's next attempt, after the back-off. *)
AppendRetry ==
    /\ pcall.at = "backoff"
    /\ pcall' = [pcall EXCEPT !.at = "sent", !.attempt = @ + 1]
    /\ appends' = appends \union {pcall'}
    /\ UNCHANGED <<producer, answers, requestIds, elog, retainedStart, receipts, consumerVars, lost>>

(* ClientError::Transport: the request or its response is lost, or slow.    *)
(* next_sequence stays, and the request may still reach the engine.         *)
AppendTransportError(reached) ==
    /\ pcall.at = "sent"
    /\ lost < MaxLost /\ lost' = lost + 1
    /\ pcall' = NoCall
    /\ appends' = IF reached THEN appends ELSE appends \ {pcall}
    /\ UNCHANGED <<producer, answers, requestIds, elog, retainedStart, receipts, consumerVars>>

(* set_epoch. *)
SetEpoch ==
    /\ pcall.at = "idle" /\ producer.epoch < MaxEpoch
    /\ producer' = [epoch |-> producer.epoch + 1, next |-> 0]
    /\ UNCHANGED <<pcall, appends, answers, requestIds, elog, retainedStart, receipts, consumerVars, lost>>

-----------------------------------------------------------------------------
(* What the engine holds of a producer: the batches of the newest epoch. *)
NewestEpoch == IF elog = <<>> THEN 0 ELSE elog[Len(elog)].epoch
NextExpected(epoch) == Cardinality({i \in 1..Len(elog) : elog[i].epoch = epoch})
OffsetOf(epoch, sequence) ==
    CHOOSE i \in 1..Len(elog) : elog[i].epoch = epoch /\ elog[i].sequence = sequence

(* The append handler: the request runs to its end on a blocking thread     *)
(* whether or not its client still waits, and the result becomes a status.  *)
AnswerClient(q, status, offset) ==
    /\ appends' = appends \ {q}
    /\ answers' = answers \union
         {[id |-> q.id, attempt |-> q.attempt, status |-> status, offset |-> offset]}

ServeAppend(q) ==
    /\ q \in appends
    /\ CASE q.epoch < NewestEpoch ->
              AnswerClient(q, "stale_epoch", 0) /\ UNCHANGED elog
         [] q.epoch >= NewestEpoch /\ q.sequence = NextExpected(q.epoch) ->
              /\ elog' = Append(elog, [epoch |-> q.epoch, sequence |-> q.sequence,
                                       payload |-> q.payload])
              /\ AnswerClient(q, "ok", Len(elog) + 1)
         [] q.epoch >= NewestEpoch /\ q.sequence < NextExpected(q.epoch) ->
              /\ LET stored == OffsetOf(q.epoch, q.sequence)
                 IN  IF elog[stored].payload = q.payload
                     THEN AnswerClient(q, "ok", stored) ELSE AnswerClient(q, "mismatch", 0)
              /\ UNCHANGED elog
         [] OTHER -> AnswerClient(q, "out_of_order", 0) /\ UNCHANGED elog
    /\ UNCHANGED <<producer, pcall, requestIds, retainedStart, receipts, consumerVars, lost>>

(* AdmissionLimited and the other errors that map to 429 and 503. *)
HandleAppendBusy(q) ==
    /\ q \in appends
    /\ lost < MaxLost /\ lost' = lost + 1
    /\ AnswerClient(q, "busy", 0)
    /\ UNCHANGED <<producer, pcall, requestIds, elog, retainedStart, receipts, consumerVars>>


(* The response arrives.  A success moves next_sequence on; 429 and 503 are *)
(* retried while attempts remain; anything else is returned to the host.    *)
AppendResponse(a) ==
    /\ a \in answers /\ answers' = answers \ {a}
    /\ IF pcall.at = "sent" /\ pcall.id = a.id /\ pcall.attempt = a.attempt
       THEN /\ producer' = IF a.status = "ok" THEN [producer EXCEPT !.next = pcall.sequence + 1]
                           ELSE producer
            /\ receipts' = IF a.status = "ok"
                           THEN receipts \union {[epoch |-> pcall.epoch, sequence |-> pcall.sequence,
                                                  payload |-> pcall.payload, offset |-> a.offset]}
                           ELSE receipts
            /\ pcall' = IF a.status = "busy" /\ pcall.attempt < MaxRetries
                        THEN [pcall EXCEPT !.at = "backoff"] ELSE NoCall
       ELSE UNCHANGED <<producer, receipts, pcall>>
    /\ UNCHANGED <<appends, requestIds, elog, retainedStart, consumerVars, lost>>

-----------------------------------------------------------------------------
(* LogicalConsumer::fetch up to its request: the cursor is copied out of    *)
(* its mutex, or the server's initial cursor at offset 0 is taken.          *)
FetchBegin(f) ==
    /\ fcalls[f].at = "idle" /\ fetches < MaxFetches
    /\ fetches' = fetches + 1
    /\ fcalls' = [fcalls EXCEPT ![f] = [at |-> "sent", last |-> 0, next |-> 0,
                    from |-> IF cursor = NoCursor THEN 0 ELSE cursor]]
    /\ UNCHANGED <<producerVars, elog, retainedStart, cursor, delivered, dropped, lost, cancels>>

(* Mutant: the next cursor is one past the batch behind the page. *)
HandleFetchPastEnd(f, n) ==
    /\ fcalls[f].at = "sent"
    /\ fcalls[f].from >= retainedStart
    /\ n \in 0..(Len(elog) - fcalls[f].from)
    /\ fcalls' = [fcalls EXCEPT ![f].at = "page", ![f].last = fcalls[f].from + n,
                                ![f].next = fcalls[f].from + n + 1]
    /\ UNCHANGED <<producerVars, elog, retainedStart, cursor, delivered, dropped, lost, fetches, cancels>>

(* The fetch handler: a prefix of the log from the cursor, as the byte      *)
(* limit allows, and the cursor behind its last batch; an empty page leaves *)
(* the cursor where it was.                                                 *)
HandleFetch(f, n) ==
    /\ fcalls[f].at = "sent"
    /\ fcalls[f].from >= retainedStart
    /\ n \in 0..(Len(elog) - fcalls[f].from)
    /\ fcalls' = [fcalls EXCEPT ![f].at = "page", ![f].last = fcalls[f].from + n,
                                ![f].next = fcalls[f].from + n]
    /\ UNCHANGED <<producerVars, elog, retainedStart, cursor, delivered, dropped, lost, fetches, cancels>>

(* A cursor before the retention floor is out of range, and a lost request  *)
(* or response a transport error; the cursor is kept.                       *)
FetchFails(f) ==
    /\ fcalls[f].at = "sent"
    /\ IF fcalls[f].from < retainedStart THEN UNCHANGED lost
       ELSE lost < MaxLost /\ lost' = lost + 1
    /\ fcalls' = [fcalls EXCEPT ![f] = NoFetch]
    /\ UNCHANGED <<producerVars, elog, retainedStart, cursor, delivered, dropped, fetches, cancels>>

(* The page is decoded and its cursor stored, over whatever another task or *)
(* set_cursor stored meanwhile; then the binding's mutex is awaited.        *)
FetchStores(f) ==
    /\ fcalls[f].at = "page"
    /\ cursor' = fcalls[f].next
    /\ fcalls' = [fcalls EXCEPT ![f].at = "stored"]
    /\ UNCHANGED <<producerVars, elog, retainedStart, delivered, dropped, lost, fetches, cancels>>

PageOf(f) == (fcalls[f].from + 1)..fcalls[f].last

FetchReturns(f) ==
    /\ fcalls[f].at = "stored"
    /\ delivered' = delivered \union PageOf(f)
    /\ fcalls' = [fcalls EXCEPT ![f] = NoFetch]
    /\ UNCHANGED <<producerVars, elog, retainedStart, cursor, dropped, lost, fetches, cancels>>

(* The host drops the fetch's future at one of its awaits. *)
FetchCancelled(f) ==
    /\ fcalls[f].at # "idle"
    /\ cancels < MaxCancels /\ cancels' = cancels + 1
    /\ dropped' = IF fcalls[f].at = "stored" THEN dropped \union PageOf(f) ELSE dropped
    /\ fcalls' = [fcalls EXCEPT ![f] = NoFetch]
    /\ UNCHANGED <<producerVars, elog, retainedStart, cursor, delivered, lost, fetches>>

(* set_cursor back to a page already read. *)
SetCursor(to) ==
    /\ cursor # NoCursor /\ to < cursor
    /\ to >= retainedStart
    /\ cancels < MaxCancels /\ cancels' = cancels + 1
    /\ cursor' = to
    /\ UNCHANGED <<producerVars, elog, retainedStart, fcalls, delivered, dropped, lost, fetches>>

(* advance_retention of what the host has read: the server refuses to move  *)
(* it back.                                                                 *)
AdvanceRetention(to) ==
    /\ to > retainedStart /\ to <= MaxRetention /\ to <= Len(elog)
    /\ 1..to \subseteq delivered
    /\ retainedStart' = to
    /\ UNCHANGED <<producerVars, elog, consumerVars, lost>>

ClientNext ==
    \/ \E p \in Payloads : AppendBegin(p)
    \/ AppendRetry \/ SetEpoch
    \/ \E r \in BOOLEAN : AppendTransportError(r)
    \/ \E q \in appends : ServeAppend(q) \/ HandleAppendBusy(q)
    \/ \E a \in answers : AppendResponse(a)
    \/ \E f \in Fetchers :
        \/ FetchBegin(f) \/ FetchFails(f) \/ FetchStores(f) \/ FetchReturns(f) \/ FetchCancelled(f)
        \/ \E n \in 0..Len(elog) : HandleFetch(f, n)
    \/ \E to \in 0..Len(elog) : SetCursor(to) \/ AdvanceRetention(to)

ClientSpec == ClientInit /\ [][ClientNext]_clientVars

-----------------------------------------------------------------------------
(* A receipt the producer returns is of its own payload: the log holds that *)
(* payload at the offset of the receipt, under the sequence of the call,    *)
(* and no sequence of an epoch is in the log twice, through retries, lost   *)
(* responses, requests that arrive after their call ended, and hosts that   *)
(* reuse a sequence for another payload after an error.                     *)
ReceiptsMatchLog ==
    /\ \A r \in receipts :
          /\ r.offset \in 1..Len(elog)
          /\ elog[r.offset] = [epoch |-> r.epoch, sequence |-> r.sequence, payload |-> r.payload]
    /\ \A i, j \in 1..Len(elog) :
          (elog[i].epoch = elog[j].epoch /\ elog[i].sequence = elog[j].sequence) => i = j

(* The consumer's cursor passes only what a fetch returned to the host,     *)
(* with tasks fetching at once and cursors set back between them; the one   *)
(* exception is a page whose future was dropped after the cursor was stored *)
(* and before it returned.                                                  *)
CursorPassesOnlyRead ==
    cursor # NoCursor =>
        1..cursor \subseteq delivered \union dropped
                            \union UNION {PageOf(f) : f \in {g \in Fetchers : fcalls[g].at = "stored"}}


=============================================================================
