---------------------------- MODULE OriginProgress ----------------------------
(***************************************************************************)
(* origin_progress_until: the producer cursor of an origin partition, read  *)
(* on the partition's coordinator, and the visible batch it points at, read *)
(* by a bounded fetch; several queries share one cumulative budget, which   *)
(* is denied for good by the first refusal.                                 *)
(***************************************************************************)
EXTENDS Naturals, Sequences, FiniteSets

CONSTANTS
    Queriers,        \* concurrent calls on one budget
    BatchRecords,    \* records of the batches the producer appends, in order
    MaxQueries, MaxCommands,
    FetchSlots,      \* command_slots of one bounded fetch
    QuerySlots,      \* slots of the coordinator's queue
    MaxOriginFaults  \* bound on expiry, stopped workers and failed reads

ASSUME OriginAssumption ==
    /\ {MaxQueries, MaxCommands, FetchSlots, MaxOriginFaults} \subseteq Nat
    /\ QuerySlots \in Nat \ {0}
    /\ \A i \in 1..Len(BatchRecords) : BatchRecords[i] \in Nat \ {0}

VARIABLES
    obudget,    \* [queries, commands, denied]
    oqueue,     \* commands queued at the coordinator
    queriers,   \* [Queriers -> [at, entered, reply, tail, outcome]]
    origin,     \* [batches, visible, trimmed]: batches appended, visible and dropped
    coordinatorUp,
    executed,   \* lookups and fetches that entered a worker
    originFaults

originVars == <<obudget, oqueue, queriers, origin, coordinatorUp, executed, originFaults>>

OriginFault == originFaults < MaxOriginFaults /\ originFaults' = originFaults + 1

(* The producer's sequences are the partition's offsets: it appends alone. *)
FirstOf(b) == IF b = 1 THEN 0 ELSE LET before[i \in 0..(b - 1)] ==
                                          IF i = 0 THEN 0 ELSE before[i - 1] + BatchRecords[i]
                                   IN  before[b - 1]
EndOf(b) == IF b = 0 THEN 0 ELSE FirstOf(b) + BatchRecords[b]
OriginNextSequence == EndOf(origin.batches)

(* Replies of the lookup: a cursor, no cursor, or an error. *)
CursorAt(n) == [kind |-> "cursor", next |-> n]
NoCursorYet == [kind |-> "absent", next |-> 0]
LookupError == [kind |-> "error", next |-> 0]
NoReply == [kind |-> "none", next |-> 0]

OriginInit ==
    /\ obudget = [queries |-> 0, commands |-> 0, denied |-> FALSE]
    /\ oqueue = <<>>
    /\ queriers = [q \in Queriers |-> [at |-> "idle", entered |-> FALSE, reply |-> NoReply,
                                       tail |-> 0, outcome |-> "none"]]
    /\ origin = [batches |-> 0, visible |-> 0, trimmed |-> 0]
    /\ coordinatorUp = TRUE /\ executed = 0 /\ originFaults = 0

(* Scope::fail: the budget is denied; a pending command is still waited for *)
(* (DrainQuery), and only then does the call return its error.              *)
Refused(q) == [queriers EXCEPT ![q].at = IF queriers[q].at = "pending" THEN "draining" ELSE "done",
                               ![q].outcome = "refused"]

DenyQueries(b) == [b EXCEPT !.denied = TRUE]

(* reserve *)
Reserve(queries, commands) ==
    /\ obudget.queries + queries <= MaxQueries
    /\ obudget.commands + commands <= MaxCommands

(* origin_progress_until up to scope.run: check, cost and reserve(1, 1). *)
BeginQuery(q) ==
    /\ queriers[q].at = "idle"
    /\ IF obudget.denied \/ ~Reserve(1, 1)
       THEN /\ obudget' = DenyQueries(obudget)
            /\ queriers' = Refused(q)
       ELSE /\ obudget' = [obudget EXCEPT !.queries = @ + 1, !.commands = @ + 1]
            /\ queriers' = [queriers EXCEPT ![q].at = "begin"]
    /\ UNCHANGED <<oqueue, origin, coordinatorUp, executed, originFaults>>

(* begin_origin_progress: a stopped worker or a full queue refuses. *)
EnqueueQuery(q) ==
    /\ queriers[q].at = "begin"
    /\ IF obudget.denied \/ ~coordinatorUp \/ Len(oqueue) = QuerySlots
       THEN /\ obudget' = DenyQueries(obudget)
            /\ queriers' = Refused(q)
            /\ UNCHANGED oqueue
       ELSE /\ oqueue' = Append(oqueue, q)
            /\ queriers' = [queriers EXCEPT ![q].at = "pending", ![q].entered = TRUE]
            /\ UNCHANGED obudget
    /\ UNCHANGED <<origin, coordinatorUp, executed, originFaults>>

(* The coordinator executes the lookup at the head of its queue; an unknown *)
(* partition, or a lookup that unwinds, is an error.                        *)
ExecuteQuery(ok) ==
    /\ coordinatorUp /\ oqueue # <<>>
    /\ IF ok THEN UNCHANGED originFaults ELSE OriginFault
    /\ oqueue' = Tail(oqueue)
    /\ executed' = executed + 1
    /\ queriers' = [queriers EXCEPT ![Head(oqueue)].reply =
                       IF obudget.denied \/ ~ok THEN LookupError
                       ELSE IF origin.batches = 0 THEN NoCursorYet ELSE CursorAt(OriginNextSequence)]
    /\ UNCHANGED <<obudget, origin, coordinatorUp>>

(* The worker stops: every queued command's reply is dropped, and says so. *)
StopCoordinator ==
    /\ coordinatorUp /\ OriginFault
    /\ coordinatorUp' = FALSE
    /\ oqueue' = <<>>
    /\ queriers' = [q \in Queriers |->
          IF \E i \in 1..Len(oqueue) : oqueue[i] = q THEN [queriers[q] EXCEPT !.reply = LookupError]
          ELSE queriers[q]]
    /\ UNCHANGED <<obudget, origin, executed>>

(* Mutant: a call that is refused after it queued does not wait. *)
CheckAfterEnqueueAtOnce(q) ==
    /\ queriers[q].at = "pending" /\ obudget.denied
    /\ queriers' = [queriers EXCEPT ![q].at = "done", ![q].outcome = "refused"]
    /\ UNCHANGED <<obudget, oqueue, origin, coordinatorUp, executed, originFaults>>

(* The check after the command entered: denied, the call still drains. *)
CheckAfterEnqueue(q) ==
    /\ queriers[q].at = "pending" /\ obudget.denied
    /\ queriers' = Refused(q)
    /\ UNCHANGED <<obudget, oqueue, origin, coordinatorUp, executed, originFaults>>

(* Scope::drain and what follows it in run: the reply is kept before the    *)
(* budget is checked; no cursor ends the query, a cursor needs its batch.   *)
DrainQuery(q) ==
    /\ queriers[q].at \in {"pending", "draining"} /\ queriers[q].reply.kind # "none"
    /\ IF queriers[q].at = "draining"
       THEN /\ queriers' = [queriers EXCEPT ![q].at = "done"]
            /\ UNCHANGED obudget
       ELSE IF obudget.denied \/ queriers[q].reply.kind = "error"
       THEN /\ obudget' = DenyQueries(obudget)
            /\ queriers' = [queriers EXCEPT ![q].at = "done", ![q].outcome = "refused"]
       ELSE /\ queriers' = [queriers EXCEPT ![q].at =
                               IF queriers[q].reply.kind = "absent" THEN "finish" ELSE "fetch"]
            /\ UNCHANGED obudget
    /\ UNCHANGED <<oqueue, origin, coordinatorUp, executed, originFaults>>

(* The batch a visible fetch from an offset returns first: the one that     *)
(* holds the offset, if it is visible and not dropped.                      *)
VisibleAt(offset) ==
    {b \in (origin.trimmed + 1)..origin.visible : FirstOf(b) <= offset /\ offset < EndOf(b)}


(* The last sequence of the producer is the offset fetched from. *)
TailOffset(next) == next - 1

(* reserve(0, slots) and visible_with_budget; an offset already dropped, or *)
(* a failed read, refuses.                                                  *)
FetchTail(q, ok) ==
    /\ queriers[q].at = "fetch"
    /\ IF ok THEN UNCHANGED originFaults ELSE OriginFault
    /\ LET offset == TailOffset(queriers[q].reply.next)
           paid   == ~obudget.denied /\ Reserve(0, FetchSlots)
           found  == VisibleAt(offset)
       IN  IF paid /\ ok /\ offset >= EndOf(origin.trimmed)
           THEN /\ obudget' = [obudget EXCEPT !.commands = @ + FetchSlots]
                /\ executed' = executed + FetchSlots
                /\ queriers' = [queriers EXCEPT
                       ![q].at = "finish",
                       ![q].tail = IF found = {} THEN 0 ELSE CHOOSE b \in found : TRUE]
           ELSE /\ obudget' = DenyQueries(IF paid THEN [obudget EXCEPT !.commands = @ + FetchSlots]
                                   ELSE obudget)
                /\ executed' = IF paid THEN executed + FetchSlots ELSE executed
                /\ queriers' = Refused(q)
    /\ UNCHANGED <<oqueue, origin, coordinatorUp>>

(* The last checks, and the report. *)
FinishQuery(q) ==
    /\ queriers[q].at = "finish"
    /\ queriers' = [queriers EXCEPT ![q].at = "done",
                                    ![q].outcome = IF obudget.denied THEN "refused" ELSE "report"]
    /\ UNCHANGED <<obudget, oqueue, origin, coordinatorUp, executed, originFaults>>

(* The original deadline passes, or a charge of the storage budget refuses: *)
(* every later check fails.                                                 *)
Expire ==
    /\ ~obudget.denied /\ OriginFault
    /\ obudget' = DenyQueries(obudget)
    /\ UNCHANGED <<oqueue, queriers, origin, coordinatorUp, executed>>

(* Appends, visibility and retention of the origin partition go on. *)
OriginMoves ==
    /\ \/ /\ origin.batches < Len(BatchRecords)
          /\ origin' = [origin EXCEPT !.batches = @ + 1]
       \/ /\ origin.visible < origin.batches
          /\ origin' = [origin EXCEPT !.visible = @ + 1]
       \/ /\ origin.trimmed < origin.visible
          /\ origin' = [origin EXCEPT !.trimmed = @ + 1]
    /\ UNCHANGED <<obudget, oqueue, queriers, coordinatorUp, executed, originFaults>>

OriginNext ==
    \/ \E q \in Queriers :
          \/ BeginQuery(q) \/ EnqueueQuery(q) \/ CheckAfterEnqueue(q) \/ DrainQuery(q)
          \/ FinishQuery(q) \/ \E ok \in BOOLEAN : FetchTail(q, ok)
    \/ (\E ok \in BOOLEAN : ExecuteQuery(ok)) \/ StopCoordinator \/ Expire \/ OriginMoves

OriginSpec == OriginInit /\ [][OriginNext]_originVars

-----------------------------------------------------------------------------
(* A report's batch is the one that ends the producer's history as the      *)
(* lookup saw it, however many batches were appended or became visible      *)
(* or were dropped between the lookup and the fetch.                        *)
OriginReportSound ==
    \A q \in Queriers :
        LET reply == queriers[q].reply
            tail  == queriers[q].tail
        IN  tail # 0 => /\ reply.kind = "cursor"
                        /\ EndOf(tail) = reply.next

(* Every command a call put in the coordinator's queue is settled before    *)
(* the call returns, refused or not, and no worker does work that the       *)
(* shared budget was not charged for.                                       *)
OriginSettled ==
    /\ \A q \in Queriers : queriers[q].at = "done" =>
          /\ \A i \in 1..Len(oqueue) : oqueue[i] # q
          /\ queriers[q].entered => queriers[q].reply.kind # "none"
    /\ executed <= obudget.commands
    /\ obudget.commands <= MaxCommands /\ obudget.queries <= MaxQueries


=============================================================================
