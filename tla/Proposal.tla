------------------------------- MODULE Proposal -------------------------------
(***************************************************************************)
(* The guarded append: a caller prepares exact coordinates, a lane's worker*)
(* obtains physical permission for them and asks the coordinator to commit *)
(* them.  Each proposal has a CommitControl word that arbitrates between   *)
(* that commit and a cancellation: by the caller dropping its ticket, or by*)
(* the worker giving up after RPC_TIMEOUT.                                 *)
(*                                                                         *)
(* Abstractions.                                                           *)
(*  - Every proposal is on a lane of its own, the most concurrent case.    *)
(*  - A proposal snapshots the sequencer's next offset, which every        *)
(*    reservation advances; Input[p] is its producer identity, and two     *)
(*    proposals with the same input are a retry and its original.          *)
(*  - The physical append after a commit is one step (see Lane).           *)
(***************************************************************************)
EXTENDS Integers, Sequences, FiniteSets

CONSTANTS
  Proposals, \* append calls
  Input,     \* the producer identity of each
  QueueSize, \* bound of the coordinator's channel
  MaxOther   \* bound on reservations by other callers

ASSUME ProposalAssumption == QueueSize \in Nat /\ MaxOther \in Nat

VARIABLES
  next,       \* the sequencer's next offset
  prepared,   \* the next offset each proposal was prepared with
  stage,      \* where each proposal is
  control,    \* its CommitControl
  commands,   \* the coordinator's queue
  committing, \* the proposal whose commit has begun, in a set of at most one
  reply,      \* the coordinator's reply to each commit
  guards,     \* proposals whose physical permission and byte charge are held
  allocated,  \* the proposals the coordinator allocated, and at which offset
  outcome,    \* the ProposedAppendOutcome each ticket received
  running,    \* whether the coordinator thread runs
  others      \* reservations by other callers

pvars == <<next, prepared, stage, control, commands, committing, reply, guards,
           allocated, outcome, running, others>>

-----------------------------------------------------------------------------
Stages == {"new", "queued", "admitted", "waiting", "late", "writing", "answered"}
Replies == {"none", "reserved", "refused", "duplicate", "disconnected"}
ProposalOutcomes == {"none", "unallocated", "unknown", "duplicate", "committed"}
Allocated == {p \in Proposals : allocated[p] # -1}

\* CommitControl::cancel succeeds unless a commit owns the word.
CancelSucceeds(p) == control[p] # "COMMITTING"

Cancel(p) == control' = [control EXCEPT ![p] = IF @ = "PENDING" THEN "CANCELLED" ELSE @]

\* The worker replies; permission and charge are released first.
Reply(p, o) ==
  /\ stage' = [stage EXCEPT ![p] = "answered"]
  /\ outcome' = [outcome EXCEPT ![p] = o]
  /\ guards' = guards \ {p}

\* Mutant: a lost reply is taken for a refusal.
MissingCommitRefused(p) == Reply(p, "unallocated") /\ Cancel(p)

\* missing_commit
MissingCommit(p) ==
  /\ Reply(p, IF CancelSucceeds(p) THEN "unallocated" ELSE "unknown")
  /\ Cancel(p)

\* Mutant: no earlier append is found.
EarlierForgotten(p) == {}

\* check_producer: the allocations with the same identity.
Earlier(p) == {q \in Allocated \ {p} : Input[q] = Input[p]}

\* Whether one of them is settled, so that its receipt answers a retry.
HasReceipt(p) == \E q \in Earlier(p) : outcome[q] = "committed"

-----------------------------------------------------------------------------
(***************************************************************************)
(* The caller and the lane's worker.                                       *)
(***************************************************************************)
\* prepare finds the identity in use: its receipt, or an error while the
\* original is in flight.
PrepareRetry(p) ==
  /\ stage[p] = "new" /\ running /\ committing = {}
  /\ Earlier(p) # {}
  /\ Reply(p, IF HasReceipt(p) THEN "duplicate" ELSE "unallocated")
  /\ UNCHANGED <<next, prepared, control, commands, committing, reply, allocated, running,
                 others>>

\* The caller prepares coordinates and queues its proposal.
Prepare(p) ==
  /\ stage[p] = "new" /\ running /\ committing = {}
  /\ Earlier(p) = {}
  /\ stage' = [stage EXCEPT ![p] = "queued"]
  /\ prepared' = [prepared EXCEPT ![p] = next]
  /\ UNCHANGED <<next, control, commands, committing, reply, guards, allocated, outcome,
                 running, others>>

\* The caller drops its ticket without waiting for the result.
DropTicket(p) ==
  /\ stage[p] \in {"queued", "admitted", "waiting", "late", "writing"}
  /\ control[p] = "PENDING"
  /\ Cancel(p)
  /\ UNCHANGED <<next, prepared, stage, commands, committing, reply, guards, allocated,
                 outcome, running, others>>

\* resolve: a cancelled proposal, or one whose physical admission is refused,
\* ends here; another one gets its permission.
Resolve(p) ==
  /\ stage[p] = "queued"
  /\ \/ /\ control[p] # "CANCELLED"
        /\ stage' = [stage EXCEPT ![p] = "admitted"]
        /\ guards' = guards \cup {p}
        /\ UNCHANGED <<control, outcome>>
     \/ Reply(p, "unallocated") /\ Cancel(p)
  /\ UNCHANGED <<next, prepared, commands, committing, reply, allocated, running, others>>

\* Mutant: the channel takes one command more.
QueueAdmitsOneMore == running /\ Len(commands) <= QueueSize

QueueAdmits == running /\ Len(commands) < QueueSize

\* commit_prepared: the commit is queued, or refused by the bounded channel.
SendCommit(p) ==
  /\ stage[p] = "admitted"
  /\ IF QueueAdmits
     THEN /\ commands' = Append(commands, p)
          /\ stage' = [stage EXCEPT ![p] = "waiting"]
          /\ UNCHANGED <<control, guards, outcome>>
     ELSE /\ Reply(p, "unallocated")
          /\ Cancel(p)
          /\ UNCHANGED commands
  /\ UNCHANGED <<next, prepared, committing, reply, allocated, running, others>>

\* Mutant: a commit that won is left behind at the deadline.
CommitOwnsDetached(p) == Reply(p, "unknown")

\* Once the commit owns the word the worker waits on, without a deadline.
CommitOwns(p) ==
  /\ stage' = [stage EXCEPT ![p] = "late"]
  /\ UNCHANGED <<guards, outcome>>

\* await_commit's first receive times out.
CommitTimesOut(p) ==
  /\ stage[p] = "waiting" /\ reply[p] = "none"
  /\ IF CancelSucceeds(p) THEN Reply(p, "unallocated") ELSE CommitOwns(p)
  /\ Cancel(p)
  /\ UNCHANGED <<next, prepared, commands, committing, reply, allocated, running, others>>


\* await_commit's first and second receive.
Awaits(p) == stage[p] \in {"waiting", "late"}

\* await_commit receives the coordinator's reply, or finds its sender gone.
ReceiveReply(p) ==
  /\ Awaits(p) /\ reply[p] # "none"
  /\ CASE reply[p] = "reserved" ->
            /\ stage' = [stage EXCEPT ![p] = "writing"]
            /\ UNCHANGED <<control, guards, outcome>>
       [] reply[p] = "refused" -> Reply(p, "unallocated") /\ Cancel(p)
       [] reply[p] = "duplicate" -> Reply(p, "duplicate") /\ UNCHANGED control
       [] reply[p] = "disconnected" -> MissingCommit(p)
  /\ UNCHANGED <<next, prepared, commands, committing, reply, allocated, running, others>>

\* The append settles; its result carries the committed coordinates.
SettleAppend(p) ==
  /\ stage[p] = "writing"
  /\ Reply(p, "committed")
  /\ UNCHANGED <<next, prepared, control, commands, committing, reply, allocated, running,
                 others>>

-----------------------------------------------------------------------------
(***************************************************************************)
(* The coordinator thread.                                                 *)
(***************************************************************************)
\* Mutant: the prepared coordinates are not compared again.
ProposalCurrentAlways(p) == TRUE

\* commit_source: what was prepared is still what the sequencer proposes.
ProposalCurrent(p) == prepared[p] = next

MayCommit(p) == Earlier(p) = {} /\ ProposalCurrent(p) /\ control[p] = "PENDING"

\* begin_commit wins the word.
BeginCommit(p) ==
  /\ running /\ committing = {} /\ commands # << >> /\ p = Head(commands)
  /\ MayCommit(p)
  /\ control' = [control EXCEPT ![p] = "COMMITTING"]
  /\ committing' = {p}
  /\ UNCHANGED <<next, prepared, stage, commands, reply, guards, allocated, outcome, running,
                 others>>

Allocate(p) ==
  /\ allocated' = [allocated EXCEPT ![p] = next]
  /\ next' = next + 1

\* The sequencer, the batch and the producer's cursor move, and the reply is sent.
FinishCommit(p) ==
  /\ p \in committing
  /\ Allocate(p)
  /\ reply' = [reply EXCEPT ![p] = "reserved"]
  /\ committing' = {} /\ commands' = Tail(commands)
  /\ UNCHANGED <<prepared, stage, control, guards, outcome, running, others>>

\* The same input was settled before: its receipt.  Otherwise a refusal, before
\* any mutation: the original is in flight, the state has moved, or the
\* proposal was cancelled.
RefuseCommit(p) ==
  /\ running /\ committing = {} /\ commands # << >> /\ p = Head(commands)
  /\ ~MayCommit(p)
  /\ reply' = [reply EXCEPT ![p] =
                 IF HasReceipt(p) THEN "duplicate" ELSE "refused"]
  /\ commands' = Tail(commands)
  /\ UNCHANGED <<next, prepared, stage, control, committing, guards, allocated, outcome,
                 running, others>>

\* An append without physical admission.
OtherReservation ==
  /\ running /\ committing = {} /\ others < MaxOther
  /\ others' = others + 1
  /\ next' = next + 1
  /\ UNCHANGED <<prepared, stage, control, commands, committing, reply, guards, allocated,
                 outcome, running>>

\* The thread ends, perhaps within a commit, before or after its mutation; the
\* reply channels of the queued commits go with it.
CoordinatorStops ==
  /\ running
  /\ running' = FALSE
  /\ reply' = [p \in Proposals |->
                 IF \E i \in DOMAIN commands : commands[i] = p THEN "disconnected" ELSE reply[p]]
  /\ commands' = << >> /\ committing' = {}
  /\ \/ UNCHANGED <<next, allocated>>
     \/ \E p \in committing : Allocate(p)
  /\ UNCHANGED <<prepared, stage, control, guards, outcome, others>>

-----------------------------------------------------------------------------
ProposalInit ==
  /\ next = 0 /\ prepared = [p \in Proposals |-> 0]
  /\ stage = [p \in Proposals |-> "new"] /\ control = [p \in Proposals |-> "PENDING"]
  /\ commands = << >> /\ committing = {} /\ reply = [p \in Proposals |-> "none"]
  /\ guards = {} /\ allocated = [p \in Proposals |-> -1]
  /\ outcome = [p \in Proposals |-> "none"] /\ running = TRUE /\ others = 0

ProposalWorkerStep(p) ==
  \/ Resolve(p)
  \/ SendCommit(p)
  \/ ReceiveReply(p)
  \/ SettleAppend(p)

CoordinatorStep(p) ==
  \/ BeginCommit(p)
  \/ FinishCommit(p)
  \/ RefuseCommit(p)

ProposalNext ==
  \/ \E p \in Proposals :
       \/ Prepare(p)
       \/ PrepareRetry(p)
       \/ DropTicket(p)
       \/ ProposalWorkerStep(p)
       \/ CommitTimesOut(p)
       \/ CoordinatorStep(p)
  \/ OtherReservation
  \/ CoordinatorStops

ProposalSpec == ProposalInit /\ [][ProposalNext]_pvars

\* The lanes' workers and the coordinator keep running, or it stops.
ProposalFairSpec ==
  /\ ProposalSpec
  /\ \A p \in Proposals : WF_pvars(ProposalWorkerStep(p)) /\ WF_pvars(CoordinatorStep(p))

-----------------------------------------------------------------------------
\* The state is well formed; the coordinator's queue never exceeds its capacity
\* (try_send).
ProposalTypeOK ==
  /\ next \in Nat /\ prepared \in [Proposals -> Nat]
  /\ stage \in [Proposals -> Stages]
  /\ control \in [Proposals -> {"PENDING", "CANCELLED", "COMMITTING"}]
  /\ commands \in Seq(Proposals) /\ Len(commands) <= QueueSize
  /\ committing \subseteq Proposals
  /\ reply \in [Proposals -> Replies] /\ guards \subseteq Proposals
  /\ allocated \in [Proposals -> Nat \cup {-1}]
  /\ outcome \in [Proposals -> ProposalOutcomes]
  /\ running \in BOOLEAN /\ others \in 0..MaxOther

\* A ticket that was told Unallocated ("No sequencing, producer or atomic-group
\* mutation occurred") has no allocation, and its commit, which may still be in
\* the coordinator's queue after the timeout, never makes one.
UnallocatedIsFinal == \A p \in Proposals : outcome[p] = "unallocated" => allocated[p] = -1

\* Until its proposal is answered, an allocation, or a commit that may still
\* make one, is owned by a worker that holds its physical permission and byte
\* charge; only a stopped coordinator leaves an allocation nobody owns.
AllocationOwned ==
  /\ \A p \in Allocated : p \in guards \/ outcome[p] = "committed" \/ ~running
  /\ committing \subseteq guards

\* A proposal is allocated at the coordinates that were physically admitted, and
\* no other allocation has them, although several proposals prepare the same
\* ones.
AllocatedAsAdmitted ==
  \A p \in Allocated :
    /\ allocated[p] = prepared[p] /\ allocated[p] < next
    /\ \A q \in Allocated \ {p} : allocated[q] # allocated[p]

\* Two allocations never have the same producer identity.
RetryAllocatesOnce ==
  \A p, q \in Allocated : Input[p] = Input[q] => p = q

\* Allocation by guarded proposals is exclusive, owned, at the admitted
\* coordinates, once per producer identity, and never behind an Unallocated answer
\* (CommitControl, commit_proposed_reservation).
ProposalSafe ==
  /\ ProposalTypeOK /\ UnallocatedIsFinal /\ AllocationOwned
  /\ AllocatedAsAdmitted /\ RetryAllocatesOnce

\* Every queued proposal is answered, also across a stopped coordinator, a
\* dropped ticket or a commit that outlives its deadline.
ProposalAnswered ==
  \A p \in Proposals : []<>(stage[p] \in {"new", "answered"})
=============================================================================
