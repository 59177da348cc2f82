------------------------------ MODULE ServerRun ------------------------------
(***************************************************************************)
(* shard-stream-server's run: the REST, gRPC, Kafka and HTTP/3 listeners    *)
(* over one engine, how each of them reacts to shutdown, the join of their  *)
(* tasks, the final sync and the end of the process; with the gRPC append   *)
(* stream, whose task outlives its client, and single requests of the       *)
(* other three protocols.                                                   *)
(*                                                                          *)
(* What axum, tonic and quinn do at shutdown is external: axum and tonic    *)
(* stop accepting and wait for what was accepted, quinn closes its          *)
(* connections at once.  The Kafka listener just returns.                   *)
(***************************************************************************)
EXTENDS Naturals, Sequences, FiniteSets

CONSTANTS
    Calls,          \* single requests
    ProtocolOf,     \* [Calls -> {"rest", "kafka", "h3"}]
    Streams,        \* gRPC append streams
    StreamMessages, \* messages a client sends on each
    StreamCapacity, \* stream_capacity of the response channel
    MaxServerFaults \* bound on failing operations, listeners and clients that vanish

Listeners == {"rest", "grpc", "kafka", "h3"}

ASSUME ServerAssumption ==
    /\ ProtocolOf \in [Calls -> Listeners \ {"grpc"}]
    /\ {StreamMessages, MaxServerFaults} \subseteq Nat
    /\ StreamCapacity \in Nat \ {0}

VARIABLES
    listeners,      \* [Listeners -> {"serving", "returned", "failed"}]
    runAt,          \* where run is: serving, joining, syncing, exiting, gone
    scalls,         \* [Calls -> [at, connected, ok]]
    streams,        \* [Streams -> [at, read, channel, seen, client, failed]]
    applied,        \* engine appends: calls and <<stream, message>>
    syncedAt,       \* applied at the final sync
    serverFaults

serverVars == <<listeners, runAt, scalls, streams, applied, syncedAt, serverFaults>>

ServerFault == serverFaults < MaxServerFaults /\ serverFaults' = serverFaults + 1
Accepting(l) == listeners[l] = "serving" /\ runAt = "serving"
Alive == runAt # "gone"

(* run up to the select: the engine is open and every listener bound. *)
ServerInit ==
    /\ listeners = [l \in Listeners |-> "serving"]
    /\ runAt = "serving"
    /\ scalls = [c \in Calls |-> [at |-> "new", connected |-> FALSE, ok |-> FALSE]]
    /\ streams = [s \in Streams |-> [at |-> "new", read |-> 0, channel |-> <<>>, seen |-> <<>>,
                                     client |-> "none", failed |-> FALSE]]
    /\ applied = {} /\ syncedAt = {} /\ serverFaults = 0

-----------------------------------------------------------------------------
(* A request is accepted and its body read; HTTP/3 refuses a body over the  *)
(* batch limit, the other listeners have limits of their own.               *)
CallBegins(c) ==
    /\ scalls[c].at = "new" /\ Accepting(ProtocolOf[c])
    /\ scalls' = [scalls EXCEPT ![c] = [at |-> "body", connected |-> TRUE, ok |-> FALSE]]
    /\ UNCHANGED <<listeners, runAt, streams, applied, syncedAt, serverFaults>>

CallBody(c, fits) ==
    /\ Alive /\ scalls[c].at = "body" /\ scalls[c].connected
    /\ IF fits THEN UNCHANGED serverFaults ELSE ServerFault
    /\ scalls' = [scalls EXCEPT ![c].at = IF fits THEN "engine" ELSE "answer"]
    /\ UNCHANGED <<listeners, runAt, streams, applied, syncedAt>>

(* engine.append on a blocking thread: it runs to its end whether or not    *)
(* anything still waits for it.                                             *)
CallEngine(c, ok) ==
    /\ Alive /\ scalls[c].at = "engine"
    /\ IF ok THEN applied' = applied \union {<<c, 1>>} /\ UNCHANGED serverFaults
       ELSE ServerFault /\ UNCHANGED applied
    /\ scalls' = [scalls EXCEPT ![c].at = "answer", ![c].ok = ok]
    /\ UNCHANGED <<listeners, runAt, streams, syncedAt>>

CallAnswers(c) ==
    /\ Alive
    /\ scalls[c].at = "answer"
    /\ scalls' = [scalls EXCEPT ![c].at = IF scalls[c].connected THEN "answered" ELSE "dropped"]
    /\ UNCHANGED <<listeners, runAt, streams, applied, syncedAt, serverFaults>>

(* The client of a call vanishes: before its body is complete the request   *)
(* goes with it, later only the answer does.                                *)
CallVanishes(c) ==
    /\ Alive /\ scalls[c].connected /\ scalls[c].at \in {"body", "engine", "answer"}
    /\ ServerFault
    /\ scalls' = [scalls EXCEPT ![c].connected = FALSE,
                                ![c].at = IF @ = "body" THEN "dropped" ELSE @]
    /\ UNCHANGED <<listeners, runAt, streams, applied, syncedAt>>

-----------------------------------------------------------------------------
(* ProducerService::append: the stream's task and its response channel. *)
StreamOpens(s) ==
    /\ streams[s].at = "new" /\ Accepting("grpc")
    /\ streams' = [streams EXCEPT ![s].at = "read", ![s].client = "sending"]
    /\ UNCHANGED <<listeners, runAt, scalls, applied, syncedAt, serverFaults>>

(* The next message, decoded, resolved and found to be led here; or one of  *)
(* these fails, and the status is the stream's last response.               *)
StreamReads(s, valid) ==
    /\ Alive
    /\ streams[s].at = "read" /\ streams[s].client = "sending"
    /\ streams[s].read < StreamMessages
    /\ IF valid THEN UNCHANGED serverFaults ELSE ServerFault
    /\ streams' = [streams EXCEPT ![s].read = @ + 1, ![s].failed = ~valid,
                                  ![s].at = IF valid THEN "engine" ELSE "send"]
    /\ UNCHANGED <<listeners, runAt, scalls, applied, syncedAt>>

StreamEngine(s, ok) ==
    /\ Alive /\ streams[s].at = "engine"
    /\ IF ok THEN applied' = applied \union {<<s, streams[s].read>>} /\ UNCHANGED serverFaults
       ELSE ServerFault /\ UNCHANGED applied
    /\ streams' = [streams EXCEPT ![s].at = "send", ![s].failed = ~ok]
    /\ UNCHANGED <<listeners, runAt, scalls, syncedAt>>

(* Mutant: a refused append does not end the stream. *)
StreamSendsOn(s) ==
    /\ Alive
    /\ streams[s].at = "send"
    /\ streams[s].client = "gone" \/ Len(streams[s].channel) < StreamCapacity
    /\ streams' = [streams EXCEPT
          ![s].at = IF streams[s].client = "gone" THEN "done" ELSE "read",
          ![s].channel = IF streams[s].client = "gone" THEN <<>>
                         ELSE Append(@, [message |-> streams[s].read, ok |-> ~streams[s].failed])]
    /\ UNCHANGED <<listeners, runAt, scalls, applied, syncedAt, serverFaults>>

(* sender.send: it waits for a slot of the channel, fails when the client   *)
(* has gone, and a failed result ends the loop.                             *)
StreamSends(s) ==
    /\ Alive
    /\ streams[s].at = "send"
    /\ streams[s].client = "gone" \/ Len(streams[s].channel) < StreamCapacity
    /\ streams' = [streams EXCEPT
          ![s].at = IF streams[s].failed \/ streams[s].client = "gone" THEN "done" ELSE "read",
          ![s].channel = IF streams[s].client = "gone" THEN <<>>
                         ELSE Append(@, [message |-> streams[s].read, ok |-> ~streams[s].failed])]
    /\ UNCHANGED <<listeners, runAt, scalls, applied, syncedAt, serverFaults>>

(* The client takes a response, ends its half of the stream, or vanishes. *)
StreamDelivers(s) ==
    /\ Alive
    /\ streams[s].channel # <<>> /\ streams[s].client # "gone"
    /\ streams' = [streams EXCEPT ![s].seen = Append(@, Head(streams[s].channel)),
                                  ![s].channel = Tail(@)]
    /\ UNCHANGED <<listeners, runAt, scalls, applied, syncedAt, serverFaults>>

StreamClientEnds(s) ==
    /\ streams[s].client = "sending"
    /\ streams' = [streams EXCEPT ![s].client = "ended"]
    /\ UNCHANGED <<listeners, runAt, scalls, applied, syncedAt, serverFaults>>

StreamClientVanishes(s) ==
    /\ streams[s].client \in {"sending", "ended"} /\ ServerFault
    /\ streams' = [streams EXCEPT ![s].client = "gone", ![s].channel = <<>>]
    /\ UNCHANGED <<listeners, runAt, scalls, applied, syncedAt>>

(* inbound.message() answers None or an error: the task ends. *)
StreamEnds(s) ==
    /\ Alive
    /\ streams[s].at = "read" /\ streams[s].client \in {"ended", "gone"}
    /\ streams' = [streams EXCEPT ![s].at = "done"]
    /\ UNCHANGED <<listeners, runAt, scalls, applied, syncedAt, serverFaults>>

-----------------------------------------------------------------------------
(* A listener's task ends early with an error. *)
ListenerFails(l) ==
    /\ listeners[l] = "serving" /\ runAt = "serving" /\ ServerFault
    /\ listeners' = [listeners EXCEPT ![l] = "failed"]
    /\ UNCHANGED <<runAt, scalls, streams, applied, syncedAt>>

(* The select in run: a signal, or the first task that ends. *)
ShutdownBegins(signal) ==
    /\ runAt = "serving"
    /\ signal \/ \E l \in Listeners : listeners[l] = "failed"
    /\ runAt' = "joining"
    /\ UNCHANGED <<listeners, scalls, streams, applied, syncedAt, serverFaults>>


(* What a listener still waits for once told to stop: axum and tonic for    *)
(* the connections they accepted, quinn (whose connections are closed) and  *)
(* the Kafka listener for nothing.                                          *)
WaitsFor(l) ==
    CASE l = "rest" -> {c \in Calls : /\ ProtocolOf[c] = "rest" /\ scalls[c].connected
                                      /\ scalls[c].at \in {"body", "engine", "answer"}}
      [] l = "grpc" -> {s \in Streams : /\ streams[s].client \in {"sending", "ended"}
                                        /\ ~(streams[s].at = "done" /\ streams[s].channel = <<>>)}
      [] OTHER -> {}

ListenerStops(l) ==
    /\ runAt = "joining" /\ listeners[l] = "serving"
    /\ WaitsFor(l) = {}
    /\ listeners' = [listeners EXCEPT ![l] = "returned"]
    /\ scalls' = [c \in Calls |->
          IF l = "h3" /\ ProtocolOf[c] = "h3" /\ scalls[c].at \in {"body", "engine", "answer"}
          THEN [scalls[c] EXCEPT !.connected = FALSE, !.at = IF @ = "body" THEN "dropped" ELSE @]
          ELSE scalls[c]]
    /\ UNCHANGED <<runAt, streams, applied, syncedAt, serverFaults>>

(* run after the join: the final sync.  Tasks go on until the runtime is    *)
(* dropped, which ends them at their awaits and waits for blocking threads. *)
FinalSync ==
    /\ runAt = "joining"
    /\ \A l \in Listeners : listeners[l] # "serving"
    /\ syncedAt' = applied
    /\ runAt' = "exiting"
    /\ UNCHANGED <<listeners, scalls, streams, applied, serverFaults>>

ProcessEnds ==
    /\ runAt = "exiting"
    /\ \A c \in Calls : scalls[c].at # "engine"
    /\ \A s \in Streams : streams[s].at # "engine"
    /\ runAt' = "gone"
    /\ UNCHANGED <<listeners, scalls, streams, applied, syncedAt, serverFaults>>

ServerNext ==
    \/ \E c \in Calls :
        \/ CallBegins(c) \/ CallAnswers(c) \/ CallVanishes(c)
        \/ \E ok \in BOOLEAN : CallBody(c, ok) \/ CallEngine(c, ok)
    \/ \E s \in Streams :
        \/ StreamOpens(s) \/ StreamSends(s) \/ StreamDelivers(s)
        \/ StreamClientEnds(s) \/ StreamClientVanishes(s) \/ StreamEnds(s)
        \/ \E ok \in BOOLEAN : StreamReads(s, ok) \/ StreamEngine(s, ok)
    \/ \E l \in Listeners : ListenerFails(l) \/ ListenerStops(l)
    \/ \E signal \in BOOLEAN : ShutdownBegins(signal)
    \/ FinalSync \/ ProcessEnds

ServerSpec == ServerInit /\ [][ServerNext]_serverVars

(* Tasks and threads are scheduled, requests complete, and clients read     *)
(* their responses and end their streams: nothing in run bounds the wait    *)
(* for a gRPC client that keeps its stream open.                            *)
ServerFairness ==
    /\ \A c \in Calls : /\ WF_serverVars(CallAnswers(c))
                        /\ WF_serverVars(CallBody(c, TRUE)) /\ WF_serverVars(CallEngine(c, TRUE))
    /\ \A s \in Streams : /\ WF_serverVars(StreamSends(s)) /\ WF_serverVars(StreamDelivers(s))
                          /\ WF_serverVars(StreamClientEnds(s)) /\ WF_serverVars(StreamEnds(s))
                          /\ WF_serverVars(StreamEngine(s, TRUE))
    /\ \A l \in Listeners : WF_serverVars(ListenerStops(l))
    /\ WF_serverVars(ShutdownBegins(FALSE))
    /\ WF_serverVars(FinalSync) /\ WF_serverVars(ProcessEnds)

FairServerSpec == ServerSpec /\ ServerFairness

-----------------------------------------------------------------------------
Answers(s) == streams[s].seen \o streams[s].channel

(* The responses of an append stream are the outcomes of a prefix of its    *)
(* messages in order: no message is appended after one that failed, every   *)
(* success answered is applied, and at most the channel and one more        *)
(* message are applied ahead of what the client has taken, unless it left.  *)
StreamAnswersPrefix ==
    \A s \in Streams :
        LET done == {m \in 1..StreamMessages : <<s, m>> \in applied}
        IN  /\ \A i \in 1..Len(Answers(s)) :
                  /\ Answers(s)[i].message = i
                  /\ Answers(s)[i].ok <=> i \in done
                  /\ ~Answers(s)[i].ok => done \subseteq 1..(i - 1)
            /\ streams[s].client # "gone" =>
                  Cardinality(done) <= Len(streams[s].seen) + StreamCapacity + 1

(* The final sync of run covers every append a REST or gRPC client was ever *)
(* told of, unless that client's listener ended with an error, whatever is  *)
(* still running for Kafka and HTTP/3 clients.                              *)
FinalSyncCovers ==
    runAt \in {"exiting", "gone"} =>
        /\ listeners["rest"] = "returned" =>
              \A c \in Calls : (ProtocolOf[c] = "rest" /\ scalls[c].at = "answered" /\ scalls[c].ok)
                                  => <<c, 1>> \in syncedAt
        /\ listeners["grpc"] = "returned" =>
              \A s \in Streams : \A i \in 1..Len(streams[s].seen) :
                  streams[s].seen[i].ok => <<s, streams[s].seen[i].message>> \in syncedAt


(* Once a listener has ended or a signal came, run ends: the other          *)
(* listeners stop, the engine is synced and the process goes.               *)
ShutdownCompletes == []<>(runAt \in {"serving", "gone"})

=============================================================================
