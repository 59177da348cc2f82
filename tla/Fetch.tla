-------------------------------- MODULE Fetch --------------------------------
(***************************************************************************)
(* One fetch of a partition that is striped over the lanes: the engine     *)
(* asks the coordinator for the bounds, every lane for a plan, the         *)
(* coordinator which planned batches are visible, merges the plans, asks   *)
(* the lanes to read what was selected and puts the payloads in order      *)
(* (engine.rs, bounded_fetch.rs, worker_fetch.rs, coordinator_fetch.rs,    *)
(* extent_fetch.rs, fetch_limits.rs).  Appends settle, replicas answer,    *)
(* the log start rises and lanes collect packs between any two of those    *)
(* steps.  A bounded fetch shares one budget with every job it enters and  *)
(* drains them all before it returns; an ordinary one has neither.         *)
(*                                                                         *)
(* A batch is one record, so its number is its offset; offsets start at 1. *)
(***************************************************************************)
EXTENDS Integers, Sequences, FiniteSets, FiniteSetsExt, SequencesExt

CONSTANTS FetchCases,     \* the requests and the partitions they meet
          MaxFetchFaults, \* bound: refusals, failed calls and stopped workers
          MaxCollections  \* bound: collections attempted

VARIABLES fxCase,    \* the request and the layout of the partition
          fxPart,    \* the coordinator's state of the partition
          fxLane,    \* lane -> its index, packs and epoch
          fxQueue,   \* lane -> the command it has yet to execute
          fxReplies, \* completions not yet received
          fxBudget,  \* the budget of a bounded fetch
          fx,        \* the fetch itself
          fxFaults   \* the bounds used

fxVars == <<fxCase, fxPart, fxLane, fxQueue, fxReplies, fxBudget, fx, fxFaults>>

FxBatches == DOMAIN fxCase.lane
FxLanes == 1..Max(Range(fxCase.lane))
NoCommand == [op |-> "none"]
Sorted(S) == SetToSortSeq(S, <)

FetchInit ==
    /\ fxCase \in FetchCases
    /\ fxPart = [status |-> fxCase.status, start |-> 1, replicas |-> {}]
    /\ fxLane = [l \in FxLanes |->
                   LET own == {b \in FxBatches : fxCase.lane[b] = l}
                   IN  [index |-> {b \in own : fxCase.status[b] # "Pending"},
                        files |-> {fxCase.pack[b] : b \in own},
                        epoch |-> 0, running |-> TRUE]]
    /\ fxQueue = [l \in FxLanes |-> NoCommand]
    /\ fxReplies = {}
    /\ fxBudget = "open"
    /\ fx = [at |-> "ask", end |-> 0, next |-> 1, pending |-> 0,
             plans |-> [l \in FxLanes |-> <<>>], epochs |-> [l \in FxLanes |-> 0],
             cut |-> {}, visible |-> {}, order |-> <<>>, got |-> {},
             out |-> <<>>, why |-> "none"]
    /\ fxFaults = [faults |-> 0, collections |-> 0]

-----------------------------------------------------------------------------
(* The partition: watermarks, and what moves them while a fetch runs. *)

\* The exclusive end of the run of batches in `pass` from the log start.
EndOfRun(pass) ==
    Min({b \in fxPart.start..(Len(fxCase.lane) + 1) : b \notin pass})
With(statuses) == {b \in FxBatches : fxPart.status[b] \in statuses}
ContiguousEnd == EndOfRun(With({"Committed", "Unresolved", "Aborted"}))
StableEnd == EndOfRun(With({"Committed", "Aborted"}))
ReplicatedEnd ==
    EndOfRun(With({"Aborted"})
             \cup (With({"Committed", "Unresolved"}) \cap fxPart.replicas))

FetchBounds ==
    [physical |-> ContiguousEnd, ordered |-> StableEnd,
     replicated |-> Min({ReplicatedEnd, StableEnd})]

StoreBatch(b) ==
    LET l == fxCase.lane[b] IN
    /\ fxPart.status[b] = "Pending"
    /\ b \notin fxLane[l].index
    /\ fxLane[l].running
    /\ fxLane' = [fxLane EXCEPT ![l].index = @ \cup {b}]
    /\ UNCHANGED <<fxCase, fxPart, fxQueue, fxReplies, fxBudget, fx, fxFaults>>

(* A write completes as committed, or unresolved when its group is not
   decided; a failed one aborts; a group's verdict resolves its chunks. *)
Outcomes(b) ==
    CASE fxPart.status[b] = "Unresolved" -> {"Committed", "Aborted"}
      [] fxPart.status[b] = "Pending" ->
           IF b \in fxLane[fxCase.lane[b]].index
           THEN {"Committed", "Unresolved"} ELSE {"Aborted"}
      [] OTHER -> {}
SettleBatch(b) ==
    /\ b >= fxPart.start
    /\ \E s \in Outcomes(b) : fxPart' = [fxPart EXCEPT !.status[b] = s]
    /\ UNCHANGED <<fxCase, fxLane, fxQueue, fxReplies, fxBudget, fx, fxFaults>>

ReplicaAnswers(b) ==
    /\ b \in With({"Committed", "Unresolved"}) \ fxPart.replicas
    /\ fxPart' = [fxPart EXCEPT !.replicas = @ \cup {b}]
    /\ UNCHANGED <<fxCase, fxLane, fxQueue, fxReplies, fxBudget, fx, fxFaults>>

RaiseLogStart(n) ==
    /\ n \in (fxPart.start + 1)..StableEnd
    /\ fxPart' = [fxPart EXCEPT !.start = n]
    /\ UNCHANGED <<fxCase, fxLane, fxQueue, fxReplies, fxBudget, fx, fxFaults>>

-----------------------------------------------------------------------------
(* A lane's collection of whole packs below the log start. *)

InPack(l, p) == {b \in fxLane[l].index : fxCase.pack[b] = p}
ActivePack(l) == Max({fxCase.pack[b] : b \in {b \in FxBatches : fxCase.lane[b] = l}})
Removable(l) ==
    {p \in {fxCase.pack[b] : b \in fxLane[l].index} \ {ActivePack(l)} :
        \A b \in InPack(l, p) : b < fxPart.start}

(* The epoch rises first.  Each pack is then measured, renamed and, once the
   directory is synced, dropped from the index; an error stops the loop with
   the packs before it gone and, after its rename, this one's file too. *)
CollectPacks(l) ==
    LET todo == Sorted(Removable(l))
        Done(k) == {todo[i] : i \in 1..k}
        Left(k) == {b \in fxLane[l].index : fxCase.pack[b] \notin Done(k)}
        stuck == SelectInSeq(todo, LAMBDA p : p \notin fxLane[l].files)
    IN
    /\ fxLane[l].running /\ fxQueue[l] = NoCommand /\ todo # <<>>
    /\ \/ /\ LET k == IF stuck = 0 THEN Len(todo) ELSE stuck - 1
             IN  fxLane' = [fxLane EXCEPT ![l].epoch = @ + 1, ![l].index = Left(k),
                                          ![l].files = @ \ Done(k)]
          /\ fxFaults' = [fxFaults EXCEPT !.collections = @ + 1]
       \/ /\ fxFaults.faults < MaxFetchFaults
          /\ \E k \in 1..(IF stuck = 0 THEN Len(todo) ELSE stuck - 1) :
               fxLane' = [fxLane EXCEPT ![l].epoch = @ + 1, ![l].index = Left(k - 1),
                                        ![l].files = @ \ Done(k)]
          /\ fxFaults' = [faults |-> fxFaults.faults + 1,
                          collections |-> fxFaults.collections + 1]
    /\ UNCHANGED <<fxCase, fxPart, fxQueue, fxReplies, fxBudget, fx>>

-----------------------------------------------------------------------------
(* The budget: one absolute expiry and sticky denial for the whole fetch. *)

BudgetOpen == fxCase.bounded => fxBudget = "open"
DenyBudget == IF fxCase.bounded THEN "denied" ELSE fxBudget
ChargeRefused ==
    /\ fxCase.bounded /\ fxBudget = "open" /\ fx.at \notin {"done", "refused"}
    /\ fxFaults.faults < MaxFetchFaults
    /\ \E how \in {"denied", "expired"} : fxBudget' = how
    /\ fxFaults' = [fxFaults EXCEPT !.faults = @ + 1]
    /\ UNCHANGED <<fxCase, fxPart, fxLane, fxQueue, fxReplies, fx>>

\* Mutant: a refused bounded fetch returns without draining its jobs.
FailFetchAtOnce(why) ==
    /\ fx' = [fx EXCEPT !.why = why, !.at = "refused"]
    /\ fxBudget' = DenyBudget

(* Refusing a bounded fetch denies the budget and goes on to drain; an
   ordinary one returns at once and leaves its commands to the lanes. *)
FailFetch(why) ==
    /\ fx' = [fx EXCEPT !.why = why,
                        !.at = IF fxCase.bounded THEN "failing" ELSE "refused"]
    /\ fxBudget' = DenyBudget

BudgetCheckFails ==
    /\ ~BudgetOpen
    /\ fx.at \notin {"asked", "queried", "planned", "reading", "failing",
                     "done", "refused"}
    /\ FailFetch("budget")
    /\ UNCHANGED <<fxCase, fxPart, fxLane, fxQueue, fxReplies, fxFaults>>

Step(at) == fx.at = at /\ BudgetOpen

-----------------------------------------------------------------------------
(* Bounds. *)

AskBounds ==
    /\ Step("ask")
    /\ fx' = [fx EXCEPT !.at = "asked"]
    /\ UNCHANGED <<fxCase, fxPart, fxLane, fxQueue, fxReplies, fxBudget, fxFaults>>

\* Mutant: an ordered fetch is bounded by the contiguous end.
OrderedEndPhysical(bounds) == bounds.physical

OrderedEnd(bounds) ==
    CASE fxCase.unresolved -> bounds.physical
      [] fxCase.mode = "Replicated" -> bounds.replicated
      [] OTHER -> bounds.ordered

CoordinatorBounds ==
    /\ fx.at = "asked"
    /\ IF BudgetOpen /\ fxCase.start >= fxPart.start
       THEN /\ fx' = [fx EXCEPT !.at = "plan", !.end = OrderedEnd(FetchBounds)]
            /\ UNCHANGED fxBudget
       ELSE FailFetch("bounds")
    /\ UNCHANGED <<fxCase, fxPart, fxLane, fxQueue, fxReplies, fxFaults>>

-----------------------------------------------------------------------------
(* Commands to the lanes: plans first, reads later. *)

Enqueue(l, command) == fxQueue' = [fxQueue EXCEPT ![l] = command]

BeginPlan ==
    LET l == fx.next IN
    /\ Step("plan") /\ l \in FxLanes /\ fxLane[l].running
    /\ Enqueue(l, [op |-> "plan"])
    /\ fx' = [fx EXCEPT !.next = l + 1, !.pending = @ + 1]
    /\ UNCHANGED <<fxCase, fxPart, fxLane, fxReplies, fxBudget, fxFaults>>

PlansSent ==
    /\ Step("plan") /\ fx.next \notin FxLanes
    /\ fx' = [fx EXCEPT !.at = "planned", !.next = 1]
    /\ UNCHANGED <<fxCase, fxPart, fxLane, fxQueue, fxReplies, fxBudget, fxFaults>>

(* A command that never reached the queue is disarmed: nobody will answer. *)
SendRefused ==
    /\ BudgetOpen /\ fx.at \in {"plan", "read"} /\ fx.next \in FxLanes
    /\ \/ ~fxLane[fx.next].running /\ UNCHANGED fxFaults
       \/ /\ fxLane[fx.next].running /\ fxFaults.faults < MaxFetchFaults
          /\ fxFaults' = [fxFaults EXCEPT !.faults = @ + 1]
    /\ FailFetch("queue")
    /\ UNCHANGED <<fxCase, fxPart, fxLane, fxQueue, fxReplies>>

(* The lane's planner: batches from the start on, while they fit. *)
SelectedBytes(used, n, has) ==
    IF has /\ used + n > fxCase.maxBytes THEN -1 ELSE used + n
PlanFetch(l) ==
    LET from == Sorted({b \in fxLane[l].index : b >= fxCase.start})
        Take(acc, b) ==
            LET next == SelectedBytes(acc.used, fxCase.bytes[b], acc.plan # <<>>)
            IN  IF acc.stop \/ Len(acc.plan) = fxCase.perLane \/ next < 0
                THEN [acc EXCEPT !.stop = TRUE]
                ELSE [acc EXCEPT !.plan = Append(@, b), !.used = next]
    IN  FoldLeft(Take, [plan |-> <<>>, used |-> 0, stop |-> FALSE], from).plan

Complete(l, reply) ==
    /\ fxQueue' = [fxQueue EXCEPT ![l] = NoCommand]
    /\ fxReplies' = fxReplies \cup {[lane |-> l] @@ reply}
NoData == [plan |-> <<>>, epoch |-> 0, cut |-> FALSE, ok |-> FALSE]

(* Every result is published; an error denies the shared budget first. *)
LanePlans(l) ==
    /\ fxQueue[l].op = "plan" /\ fxLane[l].running
    /\ Complete(l, IF BudgetOpen
                   THEN [plan |-> PlanFetch(l), epoch |-> fxLane[l].epoch, ok |-> TRUE,
                         cut |-> Len(PlanFetch(l)) <
                                 Cardinality({b \in fxLane[l].index : b >= fxCase.start})]
                   ELSE NoData)
    /\ fxBudget' = IF BudgetOpen THEN fxBudget ELSE DenyBudget
    /\ UNCHANGED <<fxCase, fxPart, fxLane, fx, fxFaults>>

(* A lane reads what was selected from its plan: the plan must belong to the
   store's current epoch and every pack must still open. *)
Readable(l, plan) ==
    /\ fx.epochs[l] = fxLane[l].epoch
    /\ \A b \in Range(plan) : fxCase.pack[b] \in fxLane[l].files
LaneReads(l) ==
    LET plan == fxQueue[l].plan IN
    /\ fxQueue[l].op = "read" /\ fxLane[l].running
    /\ \/ /\ LET ok == BudgetOpen /\ Readable(l, plan) IN
             /\ Complete(l, [NoData EXCEPT !.ok = ok, !.plan = IF ok THEN plan ELSE <<>>])
             /\ fxBudget' = IF ok THEN fxBudget ELSE DenyBudget
          /\ UNCHANGED fxFaults
       \/ /\ fxFaults.faults < MaxFetchFaults
          /\ Complete(l, NoData)
          /\ fxBudget' = DenyBudget
          /\ fxFaults' = [fxFaults EXCEPT !.faults = @ + 1]
    /\ UNCHANGED <<fxCase, fxPart, fxLane, fx>>

\* Mutant: a command destroyed with its worker answers nobody.
LaneStopsSilently(l) ==
    /\ fxLane[l].running /\ fxFaults.faults < MaxFetchFaults
    /\ fxLane' = [fxLane EXCEPT ![l].running = FALSE]
    /\ fxQueue' = [fxQueue EXCEPT ![l] = NoCommand]
    /\ fxFaults' = [fxFaults EXCEPT !.faults = @ + 1]
    /\ UNCHANGED <<fxCase, fxPart, fxReplies, fxBudget, fx>>

(* A worker that ends takes its queue with it.  The reply of a bounded
   command answers when it is dropped; an ordinary command's does not. *)
LaneStops(l) ==
    /\ fxLane[l].running /\ fxFaults.faults < MaxFetchFaults
    /\ fxLane' = [fxLane EXCEPT ![l].running = FALSE]
    /\ IF fxCase.bounded /\ fxQueue[l] # NoCommand
       THEN Complete(l, NoData)
       ELSE fxQueue' = [fxQueue EXCEPT ![l] = NoCommand] /\ UNCHANGED fxReplies
    /\ fxFaults' = [fxFaults EXCEPT !.faults = @ + 1]
    /\ UNCHANGED <<fxCase, fxPart, fxBudget, fx>>

-----------------------------------------------------------------------------
(* Receiving: drain takes every pending completion, keeping the first error. *)

Received(r) ==
    [fx EXCEPT !.pending = @ - 1,
               !.plans = IF r.ok /\ fx.at = "planned" THEN [@ EXCEPT ![r.lane] = r.plan] ELSE @,
               !.epochs = IF r.ok /\ fx.at = "planned" THEN [@ EXCEPT ![r.lane] = r.epoch] ELSE @,
               !.cut = IF r.cut THEN @ \cup {r.lane} ELSE @,
               !.got = IF fx.at = "reading" THEN @ \cup Range(r.plan) ELSE @,
               !.why = IF r.ok \/ @ # "none" THEN @ ELSE "lane"]
ReceiveCompletion ==
    /\ fx.at \in {"planned", "reading", "failing"} /\ fx.pending > 0
    /\ \E r \in fxReplies :
         /\ fxReplies' = fxReplies \ {r}
         /\ IF ~r.ok /\ ~fxCase.bounded
            THEN fx' = [Received(r) EXCEPT !.at = "refused"]
            ELSE fx' = Received(r)
         /\ fxBudget' = IF r.ok THEN fxBudget ELSE DenyBudget
    /\ UNCHANGED <<fxCase, fxPart, fxLane, fxQueue, fxFaults>>

Drained ==
    /\ fx.at \in {"planned", "reading", "failing"} /\ fx.pending = 0
    /\ IF fx.at = "failing"
       THEN fx' = [fx EXCEPT !.at = "refused"] /\ UNCHANGED fxBudget
       ELSE IF fx.why # "none" \/ ~BudgetOpen
       THEN FailFetch(IF fx.why # "none" THEN fx.why ELSE "budget")
       ELSE /\ fx' = [fx EXCEPT !.at = IF @ = "planned" THEN "query" ELSE "build"]
            /\ UNCHANGED fxBudget
    /\ UNCHANGED <<fxCase, fxPart, fxLane, fxQueue, fxReplies, fxFaults>>

-----------------------------------------------------------------------------
(* Which planned batches are visible, and which of them are returned. *)

Candidates == UNION {Range(fx.plans[l]) : l \in FxLanes}

AskCandidates ==
    /\ Step("query")
    /\ fx' = [fx EXCEPT !.at = "queried"]
    /\ UNCHANGED <<fxCase, fxPart, fxLane, fxQueue, fxReplies, fxBudget, fxFaults>>

VisibleStatus == {"Committed"} \cup IF fxCase.unresolved THEN {"Unresolved"} ELSE {}

\* Mutant: the coordinator still answers for batches below the log start.
CommittedCandidatesKept == Candidates \cap With(VisibleStatus)

CommittedCandidates ==
    {b \in Candidates : b >= fxPart.start} \cap With(VisibleStatus)
WindowFits ==
    Candidates = {} \/ Max(Candidates) - Min(Candidates) + 1 <= fxCase.window

CoordinatorCandidates ==
    /\ fx.at = "queried"
    /\ IF BudgetOpen /\ (fxCase.bounded => WindowFits)
       THEN /\ fx' = [fx EXCEPT !.at = "select", !.visible = CommittedCandidates]
            /\ UNCHANGED fxBudget
       ELSE FailFetch("budget")
    /\ UNCHANGED <<fxCase, fxPart, fxLane, fxQueue, fxReplies, fxFaults>>

(* The merge of the plans by first offset, up to the end, the byte limit and
   the limit on batches. *)
SelectFetchPlan ==
    LET Pick(acc, b) ==
            LET full == acc.take # <<>> /\ acc.used + fxCase.bytes[b] > fxCase.maxBytes
            IN  IF \/ acc.stop \/ Len(acc.take) = fxCase.select
                   \/ fxCase.mode # "AsAvailable" /\ b >= fx.end
                THEN [acc EXCEPT !.stop = TRUE]
                ELSE IF b \notin fx.visible THEN acc
                ELSE IF full THEN [acc EXCEPT !.stop = TRUE]
                ELSE [acc EXCEPT !.take = Append(@, b), !.used = @ + fxCase.bytes[b]]
    IN  FoldLeft(Pick, [take |-> <<>>, used |-> 0, stop |-> FALSE], Sorted(Candidates)).take

SelectBatches ==
    /\ Step("select")
    /\ fx' = [fx EXCEPT !.at = "read", !.next = 1, !.order = SelectFetchPlan]
    /\ UNCHANGED <<fxCase, fxPart, fxLane, fxQueue, fxReplies, fxBudget, fxFaults>>

SelectedFor(l) == SelectSeq(fx.order, LAMBDA b : fxCase.lane[b] = l)

BeginRead ==
    LET l == fx.next IN
    /\ Step("read") /\ l \in FxLanes
    /\ SelectedFor(l) = <<>> \/ fxLane[l].running
    /\ IF SelectedFor(l) = <<>> THEN UNCHANGED fxQueue
       ELSE Enqueue(l, [op |-> "read", plan |-> SelectedFor(l)])
    /\ fx' = [fx EXCEPT !.next = l + 1,
                        !.pending = @ + IF SelectedFor(l) = <<>> THEN 0 ELSE 1]
    /\ UNCHANGED <<fxCase, fxPart, fxLane, fxReplies, fxBudget, fxFaults>>

ReadsSent ==
    /\ Step("read") /\ fx.next \notin FxLanes
    /\ fx' = [fx EXCEPT !.at = "reading"]
    /\ UNCHANGED <<fxCase, fxPart, fxLane, fxQueue, fxReplies, fxBudget, fxFaults>>

(* Payloads are popped lane by lane in merge order. *)
Materialize ==
    /\ Step("build")
    /\ IF Range(fx.order) \subseteq fx.got
       THEN fx' = [fx EXCEPT !.at = "done", !.out = fx.order] /\ UNCHANGED fxBudget
       ELSE FailFetch("corrupt")
    /\ UNCHANGED <<fxCase, fxPart, fxLane, fxQueue, fxReplies, fxFaults>>

-----------------------------------------------------------------------------
FetchSteps ==
    \/ AskBounds \/ CoordinatorBounds \/ BeginPlan \/ PlansSent
    \/ ReceiveCompletion \/ Drained \/ AskCandidates \/ CoordinatorCandidates
    \/ SelectBatches \/ BeginRead \/ ReadsSent \/ Materialize \/ BudgetCheckFails
FetchWorld ==
    \/ \E b \in FxBatches : StoreBatch(b) \/ SettleBatch(b) \/ ReplicaAnswers(b)
    \/ \E n \in FxBatches : RaiseLogStart(n)
    \/ fxFaults.collections < MaxCollections /\ \E l \in FxLanes : CollectPacks(l)
    \/ \E l \in FxLanes : LaneStops(l)
    \/ ChargeRefused \/ SendRefused
(* The rest of the engine is followed while the fetch runs. *)
FetchNext ==
    \/ FetchSteps
    \/ fx.at \notin {"done", "refused"} /\ FetchWorld
    \/ \E l \in FxLanes : LanePlans(l) \/ LaneReads(l)

(* The caller runs until it blocks; a running worker drains its queue. *)
FetchFairness ==
    /\ WF_fxVars(FetchSteps) /\ WF_fxVars(SendRefused)
    /\ \A l \in 1..2 : WF_fxVars(l \in FxLanes /\ (LanePlans(l) \/ LaneReads(l)))
FetchSpec == FetchInit /\ [][FetchNext]_fxVars
FairFetchSpec == FetchSpec /\ FetchFairness

-----------------------------------------------------------------------------
(* What the caller of a completed fetch may rely on. *)

FetchEnded == fx.at = "done"
InOrderMode == fxCase.mode # "AsAvailable"
(* Committed batches between the start and the last batch returned that the
   result leaves out although the log still holds them. *)
Skipped ==
    IF ~FetchEnded \/ fx.out = <<>> THEN {}
    ELSE {b \in With({"Committed"}) :
            /\ b >= fxCase.start /\ b >= fxPart.start /\ b < Last(fx.out)
            /\ b \notin Range(fx.out)}

(* An ordered or replicated fetch leaves out a committed batch below the last
   one it returns only when that batch's lane cut its plan short: neither a
   racing append, settlement, collection nor a retried lane makes a hole
   (select_fetch_plan_bounded, plan_fetch_inner). *)
OnlyCutPlansSkip ==
    InOrderMode => \A b \in Skipped : fxCase.lane[b] \in fx.cut

(* An ordered fetch returns a prefix of the ordered stream: no committed batch
   is missing below the last one returned, so that a consumer continuing there
   has seen every batch (bounded_fetch.rs: "Fetch a finite native prefix"). *)
FetchedPrefix == InOrderMode => Skipped = {}

(* What a fetch returns is in offset order, not below the request, and still
   what a reader of that mode may see: never an aborted batch, and in the
   ordered modes never one at or beyond the watermark of the mode, whatever
   settled while the fetch ran (committed_candidates, fetch_bounds). *)
FetchedVisible ==
    FetchEnded =>
      /\ \A i \in 1..Len(fx.out) : fx.out[i] >= fxCase.start
      /\ \A i \in 2..Len(fx.out) : fx.out[i - 1] < fx.out[i]
      /\ ~fxCase.unresolved =>
           \A b \in Range(fx.out) :
             /\ fxPart.status[b] = "Committed"
             /\ fxCase.mode = "Ordered" => b < StableEnd
             /\ fxCase.mode = "Replicated" => b < ReplicatedEnd

(* A read that a lane has yet to execute finds every pack it needs, or a
   collection has moved the lane's epoch since the plan: a collection that
   failed half way, leaving a renamed pack in the index, is never in the way
   of a fetch (garbage_collect, committed_candidates, read_fetch_plan_inner). *)
ReadsStay ==
    \A l \in FxLanes : fxQueue[l].op = "read" =>
        \/ fx.epochs[l] # fxLane[l].epoch
        \/ \A b \in Range(fxQueue[l].plan) : fxCase.pack[b] \in fxLane[l].files

(* When a bounded fetch returns, with a result or refused, no lane still holds
   one of its commands and no completion is outstanding (Scope::fail, drain). *)
BoundedDrained ==
    fxCase.bounded /\ fx.at \in {"done", "refused"} =>
      fx.pending = 0 /\ fxReplies = {} /\ \A l \in FxLanes : fxQueue[l] = NoCommand

(* A bounded fetch always returns, even when workers stop with its commands in
   their queues (Reply::drop). *)
BoundedReturned == fxCase.bounded => fx.at \in {"done", "refused"}
BoundedReturns == []<>BoundedReturned

(* All four, of an unbounded and of a bounded fetch beside appends,        *)
(* replicas, retention and collections (engine.rs, bounded_fetch.rs).      *)
FetchSafe == OnlyCutPlansSkip /\ FetchedVisible /\ ReadsStay /\ BoundedDrained
=============================================================================
