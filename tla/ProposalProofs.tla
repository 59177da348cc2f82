--------------------------- MODULE ProposalProofs ---------------------------
(***************************************************************************)
(* Guarded proposals are allocated exclusively, at the coordinates that    *)
(* were admitted, once per producer identity, and never behind an          *)
(* Unallocated answer (ProposalSafe), for any set of proposals, any queue  *)
(* and any number of other reservations.                                   *)
(*                                                                         *)
(* The inductive invariant says of each proposal what its control word, its *)
(* reply and its place in the coordinator's queue allow (Rules), and of    *)
(* the coordinator that a commit it has begun is the head of its queue and *)
(* still current.                                                          *)
(***************************************************************************)
EXTENDS Proposal, TLAPS

\* The proposals in the coordinator's queue.
Queued == {commands[i] : i \in DOMAIN commands}

\* No proposal is queued twice.
Distinct == \A i, j \in DOMAIN commands : commands[i] = commands[j] => i = j

Told == {"reserved", "disconnected"}

Rules(p) ==
  /\ p \in Queued => /\ running /\ reply[p] = "none" /\ stage[p] \in {"waiting", "late", "answered"}
                     /\ stage[p] = "answered" => control[p] = "CANCELLED"
  /\ control[p] = "COMMITTING" => p \in committing \/ reply[p] \in Told
  /\ allocated[p] # -1 => /\ control[p] = "COMMITTING" /\ reply[p] \in Told
                          /\ allocated[p] = prepared[p] /\ allocated[p] < next
  /\ reply[p] = "disconnected" => ~running
  /\ reply[p] = "reserved" =>
       stage[p] \in {"waiting", "late", "writing"} \/ outcome[p] = "committed"
  /\ p \in guards <=> stage[p] \in {"admitted", "waiting", "late", "writing"}
  /\ stage[p] \in {"new", "queued", "admitted"} => control[p] # "COMMITTING" /\ reply[p] = "none"
  /\ stage[p] = "writing" => reply[p] = "reserved"
  /\ outcome[p] = "unallocated" => control[p] # "COMMITTING"
  /\ outcome[p] # "none" => stage[p] = "answered"

\* A commit that has begun is of the first command, which nothing overtakes.
Commit ==
  committing = {} \/ /\ commands # << >> /\ committing = {Head(commands)}
                     /\ control[Head(commands)] = "COMMITTING"
                     /\ prepared[Head(commands)] = next
                     /\ Earlier(Head(commands)) = {}

\* Allocations differ in their coordinates and in their producer's identity.
Exclusive ==
  \A p, q \in Allocated : p # q => allocated[p] # allocated[q] /\ Input[p] # Input[q]

ProposalInv ==
  /\ ProposalTypeOK /\ Distinct /\ Commit /\ Exclusive
  /\ \A p \in Proposals : Rules(p)

-----------------------------------------------------------------------------
\* What the queue holds after a send, and after its first command is handled.
LEMMA AppendQueued ==
  ASSUME ProposalInv, NEW p \in Proposals, p \notin Queued, commands' = Append(commands, p)
  PROVE  /\ Queued' = Queued \cup {p} /\ Distinct' /\ commands' # << >>
         /\ commands # << >> => Head(commands') = Head(commands)
<1>1. /\ commands \in Seq(Proposals) /\ Len(commands) \in Nat /\ DOMAIN commands = 1..Len(commands)
      /\ Distinct
  BY DEF ProposalInv, ProposalTypeOK
<1>2. /\ DOMAIN commands' = 1..(Len(commands) + 1) /\ commands'[Len(commands) + 1] = p
      /\ \A i \in 1..Len(commands) : commands'[i] = commands[i]
  BY <1>1
<1>3. \A i \in 1..Len(commands) : commands[i] # p
  BY <1>1 DEF Queued
<1>4. Queued = {commands[i] : i \in 1..Len(commands)}
  BY <1>1 DEF Queued
<1>5. Queued' = {commands'[i] : i \in 1..(Len(commands) + 1)}
  BY <1>2 DEF Queued
<1>6. Queued' = Queued \cup {p}
  BY <1>1, <1>2, <1>4, <1>5
<1>7. \A i, j \in 1..(Len(commands) + 1) : commands'[i] = commands'[j] => i = j
  BY <1>1, <1>2, <1>3 DEF Distinct
<1>8. Distinct'
  BY <1>2, <1>7 DEF Distinct
<1>9. commands # << >> => Head(commands') = Head(commands)
  BY <1>1
<1>10. commands' # << >>
  BY <1>1
<1> QED BY <1>6, <1>8, <1>9, <1>10

LEMMA TailQueued ==
  ASSUME ProposalInv, commands # << >>, commands' = Tail(commands)
  PROVE  /\ Head(commands) \in Queued /\ Head(commands) \in Proposals
         /\ Queued' = Queued \ {Head(commands)} /\ Distinct'
         /\ commands' \in Seq(Proposals) /\ Len(commands') <= QueueSize
<1>1. /\ commands \in Seq(Proposals) /\ Len(commands) \in Nat \ {0}
      /\ DOMAIN commands = 1..Len(commands) /\ Len(commands) <= QueueSize /\ QueueSize \in Nat
      /\ \A i, j \in 1..Len(commands) : commands[i] = commands[j] => i = j
  BY ProposalAssumption DEF ProposalInv, ProposalTypeOK, Distinct
<1>2. /\ Head(commands) = commands[1] /\ commands' \in Seq(Proposals)
      /\ Len(commands') = Len(commands) - 1
      /\ DOMAIN commands' = 1..(Len(commands) - 1)
      /\ \A i \in 1..(Len(commands) - 1) : commands'[i] = commands[i + 1]
  BY <1>1
<1>3. Head(commands) \in Queued /\ Head(commands) \in Proposals
  BY <1>1, <1>2 DEF Queued
<1>4. Distinct'
  <2> SUFFICES ASSUME NEW i \in 1..(Len(commands) - 1), NEW j \in 1..(Len(commands) - 1),
                      commands'[i] = commands'[j]
               PROVE  i = j
    BY <1>2 DEF Distinct
  <2>1. i + 1 \in 1..Len(commands) /\ j + 1 \in 1..Len(commands) /\ commands[i + 1] = commands[j + 1]
    BY <1>1, <1>2
  <2>2. i + 1 = j + 1
    BY <1>1, <2>1
  <2> QED BY <2>2
<1>5. Queued' \subseteq Queued \ {Head(commands)}
  <2> SUFFICES ASSUME NEW i \in 1..(Len(commands) - 1)
               PROVE  commands'[i] \in Queued /\ commands'[i] # Head(commands)
    BY <1>2 DEF Queued
  <2>1. commands'[i] = commands[i + 1] /\ i + 1 \in 1..Len(commands) /\ i + 1 # 1 /\ 1 \in 1..Len(commands)
    BY <1>1, <1>2
  <2> QED BY <1>1, <1>2, <2>1 DEF Queued
<1>6. Queued \ {Head(commands)} \subseteq Queued'
  <2> SUFFICES ASSUME NEW i \in 1..Len(commands), commands[i] # Head(commands)
               PROVE  commands[i] \in Queued'
    BY <1>1 DEF Queued
  <2>1. i - 1 \in 1..(Len(commands) - 1) /\ (i - 1) + 1 = i
    BY <1>1, <1>2
  <2>2. commands'[i - 1] = commands[i]
    BY <1>2, <2>1
  <2> QED BY <1>2, <2>1, <2>2 DEF Queued
<1> QED BY <1>1, <1>2, <1>3, <1>4, <1>5, <1>6

\* The commit that has begun is still queued.
LEMMA CommittingQueued ==
  ASSUME ProposalInv, NEW p \in committing
  PROVE  p \in Queued /\ p = Head(commands) /\ commands # << >> /\ p \in Proposals
<1>1. commands # << >> /\ p = Head(commands)
  BY DEF ProposalInv, Commit
<1>2. commands \in Seq(Proposals)
  BY DEF ProposalInv, ProposalTypeOK
<1>3. 1 \in DOMAIN commands /\ p = commands[1] /\ p \in Proposals
  BY <1>1, <1>2
<1> QED BY <1>1, <1>3 DEF Queued

\* A proposal that a step does not concern keeps its rules.
LEMMA OthersKept ==
  ASSUME ProposalInv, next' \in Nat, next' >= next, running' = running, NEW q \in Proposals,
         q \in Queued' <=> q \in Queued, q \in committing => q \in committing',
         q \in guards' <=> q \in guards,
         stage'[q] = stage[q], control'[q] = control[q], reply'[q] = reply[q],
         allocated'[q] = allocated[q], prepared'[q] = prepared[q], outcome'[q] = outcome[q]
  PROVE  Rules(q)'
<1>1. Rules(q) /\ next \in Nat /\ allocated[q] \in Nat \cup {-1}
  BY DEF ProposalInv, ProposalTypeOK
<1>2. allocated[q] # -1 /\ allocated[q] < next => allocated[q] < next'
  BY <1>1
<1> QED BY <1>1, <1>2 DEF Rules

\* A step of the caller or of the lane's worker concerns its own proposal only.
LEMMA LocalStep ==
  ASSUME ProposalInv, NEW p \in Proposals,
         UNCHANGED <<next, prepared, commands, committing, reply, allocated, running, others>>,
         NEW s \in Stages, NEW c \in {"PENDING", "CANCELLED"}, NEW o \in ProposalOutcomes,
         stage' = [stage EXCEPT ![p] = s],
         control' = [control EXCEPT ![p] = IF @ = "COMMITTING" THEN @ ELSE c],
         outcome' = [outcome EXCEPT ![p] = o],
         guards' \subseteq Proposals, \A q \in Proposals \ {p} : q \in guards' <=> q \in guards,
         Rules(p)'
  PROVE  ProposalInv'
<1>1. ProposalTypeOK'
  BY DEF ProposalInv, ProposalTypeOK
<1>2. Queued' = Queued /\ Distinct'
  BY DEF ProposalInv, Queued, Distinct
<1>3. Allocated' = Allocated
  BY DEF Allocated
<1>4. Exclusive'
  BY <1>3 DEF ProposalInv, Exclusive
<1>5. Commit'
  <2>1. \A q \in Proposals : control[q] = "COMMITTING" => control'[q] = "COMMITTING"
    BY DEF ProposalInv, ProposalTypeOK
  <2>2. commands # << >> => Head(commands) \in Proposals
    BY DEF ProposalInv, ProposalTypeOK
  <2>3. \A q : Earlier(q)' = Earlier(q)
    BY <1>3 DEF Earlier
  <2> QED BY <2>1, <2>2, <2>3 DEF ProposalInv, Commit
<1>6. ASSUME NEW q \in Proposals PROVE Rules(q)'
  <2>1. CASE q = p
    BY <2>1
  <2>2. CASE q # p
    <3>1. stage'[q] = stage[q] /\ control'[q] = control[q] /\ outcome'[q] = outcome[q]
      BY <2>2 DEF ProposalInv, ProposalTypeOK
    <3>2. next' \in Nat /\ next' >= next
      BY DEF ProposalInv, ProposalTypeOK
    <3> QED BY <1>2, <2>2, <3>1, <3>2, OthersKept
  <2> QED BY <2>1, <2>2
<1> QED BY <1>1, <1>2, <1>4, <1>5, <1>6 DEF ProposalInv

\* What the types say of one proposal.
LEMMA ProposalFacts ==
  ASSUME ProposalInv, NEW p \in Proposals
  PROVE  /\ Rules(p) /\ stage[p] \in Stages /\ reply[p] \in Replies
         /\ control[p] \in {"PENDING", "CANCELLED", "COMMITTING"}
         /\ outcome[p] \in ProposalOutcomes /\ guards \subseteq Proposals
         /\ stage \in [Proposals -> Stages] /\ outcome \in [Proposals -> ProposalOutcomes]
         /\ control \in [Proposals -> {"PENDING", "CANCELLED", "COMMITTING"}]
BY DEF ProposalInv, ProposalTypeOK

\* A proposal without an allocation that is answered.
LEMMA AnswerInv ==
  ASSUME ProposalInv, NEW p \in Proposals, NEW o \in ProposalOutcomes \ {"none"},
         Reply(p, o), Cancel(p),
         UNCHANGED <<next, prepared, commands, committing, reply, allocated, running, others>>,
         o = "unallocated" => control[p] # "COMMITTING",
         p \in Queued => control[p] # "COMMITTING",
         reply[p] = "reserved" => o = "committed"
  PROVE  ProposalInv'
<1>1. /\ Rules(p) /\ control[p] \in {"PENDING", "CANCELLED", "COMMITTING"}
      /\ stage \in [Proposals -> Stages] /\ outcome \in [Proposals -> ProposalOutcomes]
      /\ control \in [Proposals -> {"PENDING", "CANCELLED", "COMMITTING"}]
      /\ guards \subseteq Proposals
  BY ProposalFacts
<1>2. /\ stage' = [stage EXCEPT ![p] = "answered"] /\ outcome' = [outcome EXCEPT ![p] = o]
      /\ guards' = guards \ {p}
      /\ control' = [control EXCEPT ![p] = IF @ = "COMMITTING" THEN @ ELSE "CANCELLED"]
  BY <1>1 DEF Reply, Cancel
<1>3. /\ stage'[p] = "answered" /\ outcome'[p] = o /\ p \notin guards'
      /\ control'[p] = IF control[p] = "COMMITTING" THEN "COMMITTING" ELSE "CANCELLED"
  BY <1>1, <1>2
<1>4. Queued' = Queued
  BY DEF Queued
<1>5. Rules(p)'
  BY <1>1, <1>3, <1>4 DEF Rules
<1>6. "answered" \in Stages
  BY DEF Stages
<1> QED BY <1>1, <1>2, <1>5, <1>6, LocalStep

\* A step that answers nobody: the proposal goes on, or its ticket is dropped.
LEMMA ProceedInv ==
  ASSUME ProposalInv, NEW p \in Proposals, NEW s \in Stages \ {"answered"},
         stage' = [stage EXCEPT ![p] = s],
         control' = control \/ Cancel(p), outcome' = outcome,
         guards' \subseteq Proposals, \A q \in Proposals \ {p} : q \in guards' <=> q \in guards,
         UNCHANGED <<next, prepared, commands, committing, reply, allocated, running, others>>,
         Rules(p)'
  PROVE  ProposalInv'
<1>1. /\ stage \in [Proposals -> Stages] /\ outcome \in [Proposals -> ProposalOutcomes]
      /\ control \in [Proposals -> {"PENDING", "CANCELLED", "COMMITTING"}]
      /\ outcome[p] \in ProposalOutcomes
  BY ProposalFacts
<1>2. outcome' = [outcome EXCEPT ![p] = outcome[p]]
  BY <1>1
<1>3. PICK c \in {"PENDING", "CANCELLED"} :
        control' = [control EXCEPT ![p] = IF @ = "COMMITTING" THEN @ ELSE c]
  <2>1. CASE control' = control /\ control[p] = "PENDING"
    BY <1>1, <2>1
  <2>2. CASE control' = control /\ control[p] # "PENDING"
    BY <1>1, <2>2
  <2>3. CASE Cancel(p)
    <3>1. control' = [control EXCEPT ![p] = IF @ = "COMMITTING" THEN @ ELSE "CANCELLED"]
      BY <1>1, <2>3 DEF Cancel
    <3> QED BY <3>1
  <2> QED BY <2>1, <2>2, <2>3
<1> QED BY <1>1, <1>2, <1>3, LocalStep

\* A proposal that is answered without a cancellation, when no commit is queued.
LEMMA AnswerKeeping ==
  ASSUME ProposalInv, NEW p \in Proposals, NEW o \in ProposalOutcomes \ {"none"},
         Reply(p, o), p \notin Queued,
         UNCHANGED <<next, prepared, control, commands, committing, reply, allocated, running,
                     others>>,
         o = "unallocated" => control[p] # "COMMITTING",
         reply[p] = "reserved" => o = "committed"
  PROVE  ProposalInv'
<1>1. /\ Rules(p) /\ control[p] \in {"PENDING", "CANCELLED", "COMMITTING"}
      /\ stage \in [Proposals -> Stages] /\ outcome \in [Proposals -> ProposalOutcomes]
      /\ control \in [Proposals -> {"PENDING", "CANCELLED", "COMMITTING"}]
      /\ guards \subseteq Proposals
  BY ProposalFacts
<1>2. PICK c \in {"PENDING", "CANCELLED"} : control[p] \in {c, "COMMITTING"}
  BY <1>1
<1>3. /\ stage' = [stage EXCEPT ![p] = "answered"] /\ outcome' = [outcome EXCEPT ![p] = o]
      /\ guards' = guards \ {p}
      /\ control' = [control EXCEPT ![p] = IF @ = "COMMITTING" THEN @ ELSE c]
  BY <1>1, <1>2 DEF Reply
<1>4. stage'[p] = "answered" /\ outcome'[p] = o /\ p \notin guards'
  BY <1>1, <1>3
<1>5. Queued' = Queued
  BY DEF Queued
<1>6. Rules(p)'
  BY <1>1, <1>4, <1>5 DEF Rules
<1>7. "answered" \in Stages
  BY DEF Stages
<1> QED BY <1>1, <1>3, <1>6, <1>7, LocalStep

LEMMA PrepareRetryInv ==
  ASSUME ProposalInv, NEW p \in Proposals, PrepareRetry(p)
  PROVE  ProposalInv'
<1>1. /\ stage[p] = "new"
      /\ UNCHANGED <<next, prepared, control, commands, committing, reply, allocated, running,
                     others>>
  BY DEF PrepareRetry
<1>2. PICK o \in {"duplicate", "unallocated"} : Reply(p, o)
  BY DEF PrepareRetry
<1>3. control[p] # "COMMITTING" /\ reply[p] = "none" /\ p \notin Queued
  BY <1>1, ProposalFacts DEF Rules
<1>4. o \in ProposalOutcomes \ {"none"}
  BY DEF ProposalOutcomes
<1> QED BY <1>1, <1>2, <1>3, <1>4, AnswerKeeping

LEMMA PrepareInv ==
  ASSUME ProposalInv, NEW p \in Proposals, Prepare(p)
  PROVE  ProposalInv'
<1>1. /\ stage[p] = "new" /\ committing = {} /\ next \in Nat
      /\ stage' = [stage EXCEPT ![p] = "queued"] /\ prepared' = [prepared EXCEPT ![p] = next]
      /\ UNCHANGED <<next, control, commands, committing, reply, guards, allocated, outcome,
                     running, others>>
  BY DEF Prepare, ProposalInv, ProposalTypeOK
<1>2. ProposalTypeOK'
  BY <1>1 DEF ProposalInv, ProposalTypeOK, Stages
<1>3. Queued' = Queued /\ Distinct' /\ Allocated' = Allocated
  BY <1>1 DEF ProposalInv, Queued, Distinct, Allocated
<1>4. Commit' /\ Exclusive'
  BY <1>1, <1>3 DEF ProposalInv, Commit, Exclusive
<1>5. Rules(p)'
  <2>1. Rules(p) /\ stage'[p] = "queued"
    BY <1>1 DEF ProposalInv, ProposalTypeOK
  <2>2. allocated[p] = -1 /\ p \notin Queued
    BY <1>1, <2>1 DEF Rules, Told
  <2> QED BY <1>1, <1>3, <2>1, <2>2 DEF Rules
<1>6. ASSUME NEW q \in Proposals, q # p PROVE Rules(q)'
  <2>1. stage'[q] = stage[q] /\ prepared'[q] = prepared[q] /\ next' >= next /\ next' \in Nat
    BY <1>1, <1>6 DEF ProposalInv, ProposalTypeOK
  <2> QED BY <1>1, <1>3, <2>1, OthersKept
<1> QED BY <1>2, <1>3, <1>4, <1>5, <1>6 DEF ProposalInv

LEMMA DropTicketInv ==
  ASSUME ProposalInv, NEW p \in Proposals, DropTicket(p)
  PROVE  ProposalInv'
<1>1. /\ stage[p] \in {"queued", "admitted", "waiting", "late", "writing"}
      /\ control[p] = "PENDING" /\ Cancel(p)
      /\ UNCHANGED <<next, prepared, stage, commands, committing, reply, guards, allocated,
                     outcome, running, others>>
  BY DEF DropTicket
<1>2. /\ Rules(p) /\ stage[p] \in Stages /\ stage \in [Proposals -> Stages]
      /\ control \in [Proposals -> {"PENDING", "CANCELLED", "COMMITTING"}]
      /\ guards \subseteq Proposals
  BY ProposalFacts
<1>3. control'[p] = "CANCELLED" /\ Queued' = Queued
  BY <1>1, <1>2 DEF Cancel, Queued
<1>4. Rules(p)'
  BY <1>1, <1>2, <1>3 DEF Rules
<1>5. stage' = [stage EXCEPT ![p] = stage[p]]
  BY <1>1, <1>2
<1>6. stage[p] # "answered"
  BY <1>1
<1> QED BY <1>1, <1>2, <1>4, <1>5, <1>6, ProceedInv

LEMMA ResolveInv ==
  ASSUME ProposalInv, NEW p \in Proposals, Resolve(p)
  PROVE  ProposalInv'
<1>1. /\ stage[p] = "queued"
      /\ UNCHANGED <<next, prepared, commands, committing, reply, allocated, running, others>>
  BY DEF Resolve
<1>2. /\ Rules(p) /\ stage \in [Proposals -> Stages] /\ guards \subseteq Proposals
  BY ProposalFacts
<1>3. control[p] # "COMMITTING" /\ reply[p] = "none" /\ p \notin Queued
  BY <1>1, <1>2 DEF Rules
<1>4. CASE stage' = [stage EXCEPT ![p] = "admitted"] /\ guards' = guards \cup {p}
             /\ UNCHANGED <<control, outcome>>
  <2>1. stage'[p] = "admitted" /\ Queued' = Queued
    BY <1>1, <1>2, <1>4 DEF Queued
  <2>2. Rules(p)'
    BY <1>1, <1>2, <1>3, <1>4, <2>1 DEF Rules
  <2>3. "admitted" \in Stages \ {"answered"}
    BY DEF Stages
  <2> QED BY <1>1, <1>2, <1>4, <2>2, <2>3, ProceedInv
<1>5. CASE Reply(p, "unallocated") /\ Cancel(p)
  <2>1. "unallocated" \in ProposalOutcomes \ {"none"}
    BY DEF ProposalOutcomes
  <2> QED BY <1>1, <1>3, <1>5, <2>1, AnswerInv
<1> QED BY <1>4, <1>5 DEF Resolve

LEMMA SendCommitInv ==
  ASSUME ProposalInv, NEW p \in Proposals, SendCommit(p)
  PROVE  ProposalInv'
<1>1. /\ stage[p] = "admitted"
      /\ UNCHANGED <<next, prepared, committing, reply, allocated, running, others>>
  BY DEF SendCommit
<1>2. /\ Rules(p) /\ stage \in [Proposals -> Stages] /\ guards \subseteq Proposals
  BY ProposalFacts
<1>3. control[p] # "COMMITTING" /\ reply[p] = "none" /\ p \notin Queued /\ p \in guards
  BY <1>1, <1>2 DEF Rules
<1>4. CASE ~QueueAdmits
  <2>1. Reply(p, "unallocated") /\ Cancel(p) /\ UNCHANGED commands
    BY <1>4 DEF SendCommit
  <2>2. "unallocated" \in ProposalOutcomes \ {"none"}
    BY DEF ProposalOutcomes
  <2> QED BY <1>1, <1>3, <2>1, <2>2, AnswerInv
<1>5. CASE QueueAdmits
  <2>1. /\ commands' = Append(commands, p) /\ stage' = [stage EXCEPT ![p] = "waiting"]
        /\ UNCHANGED <<control, guards, outcome>> /\ running /\ Len(commands) < QueueSize
    BY <1>5 DEF SendCommit, QueueAdmits
  <2>2. /\ Queued' = Queued \cup {p} /\ Distinct' /\ commands' # << >>
        /\ commands # << >> => Head(commands') = Head(commands)
    BY <1>3, <2>1, AppendQueued
  <2>3. ProposalTypeOK'
    <3>1. commands \in Seq(Proposals)
      BY DEF ProposalInv, ProposalTypeOK
    <3>2. commands' \in Seq(Proposals) /\ Len(commands') <= QueueSize
      BY <2>1, <3>1, ProposalAssumption
    <3> QED BY <1>1, <2>1, <3>2 DEF ProposalInv, ProposalTypeOK, Stages
  <2>4. Allocated' = Allocated
    BY ZenonT(100), <1>1 DEF Allocated
  <2>5. Exclusive' /\ Commit'
    BY <1>1, <2>1, <2>2, <2>4 DEF ProposalInv, Exclusive, Commit, Earlier
  <2>6. Rules(p)'
    <3>1. stage'[p] = "waiting"
      BY <1>2, <2>1
    <3>2. outcome[p] = "none" /\ allocated[p] = -1
      BY <1>1, <1>2, <1>3 DEF Rules
    <3> QED BY <1>1, <1>2, <1>3, <2>1, <2>2, <3>1, <3>2 DEF Rules
  <2>7. ASSUME NEW q \in Proposals, q # p PROVE Rules(q)'
    <3>1. stage'[q] = stage[q] /\ next' \in Nat /\ next' >= next
      BY <1>1, <2>1, <2>7 DEF ProposalInv, ProposalTypeOK
    <3> QED BY <1>1, <2>1, <2>2, <2>7, <3>1, OthersKept
  <2> QED BY <2>2, <2>3, <2>5, <2>6, <2>7 DEF ProposalInv
<1> QED BY <1>4, <1>5

LEMMA CommitTimesOutInv ==
  ASSUME ProposalInv, NEW p \in Proposals, CommitTimesOut(p)
  PROVE  ProposalInv'
<1>1. /\ stage[p] = "waiting" /\ reply[p] = "none" /\ Cancel(p)
      /\ UNCHANGED <<next, prepared, commands, committing, reply, allocated, running, others>>
  BY DEF CommitTimesOut
<1>2. /\ Rules(p) /\ stage \in [Proposals -> Stages] /\ guards \subseteq Proposals
      /\ control \in [Proposals -> {"PENDING", "CANCELLED", "COMMITTING"}]
  BY ProposalFacts
<1>3. CASE control[p] # "COMMITTING"
  <2>1. Reply(p, "unallocated")
    BY <1>3 DEF CommitTimesOut, CancelSucceeds
  <2>2. "unallocated" \in ProposalOutcomes \ {"none"}
    BY DEF ProposalOutcomes
  <2> QED BY <1>1, <1>3, <2>1, <2>2, AnswerInv
<1>4. CASE control[p] = "COMMITTING"
  <2>1. stage' = [stage EXCEPT ![p] = "late"] /\ UNCHANGED <<guards, outcome>>
    BY <1>4 DEF CommitTimesOut, CancelSucceeds, CommitOwns
  <2>2. stage'[p] = "late" /\ control'[p] = control[p] /\ Queued' = Queued
    BY <1>1, <1>2, <1>4, <2>1 DEF Cancel, Queued
  <2>3. Rules(p)'
    BY <1>1, <1>2, <2>1, <2>2 DEF Rules
  <2>4. "late" \in Stages \ {"answered"}
    BY DEF Stages
  <2> QED BY <1>1, <1>2, <2>1, <2>3, <2>4, ProceedInv
<1> QED BY <1>3, <1>4

LEMMA ReceiveReplyInv ==
  ASSUME ProposalInv, NEW p \in Proposals, ReceiveReply(p)
  PROVE  ProposalInv'
<1>1. /\ stage[p] \in {"waiting", "late"} /\ reply[p] # "none"
      /\ UNCHANGED <<next, prepared, commands, committing, reply, allocated, running, others>>
  BY DEF ReceiveReply, Awaits
<1>2. /\ Rules(p) /\ stage \in [Proposals -> Stages] /\ guards \subseteq Proposals
      /\ reply[p] \in Replies
  BY ProposalFacts
<1>3. p \notin Queued
  BY <1>1, <1>2 DEF Rules
<1>4. {"unallocated", "duplicate", "unknown"} \subseteq ProposalOutcomes \ {"none"}
  BY DEF ProposalOutcomes
<1>5. CASE reply[p] = "reserved"
  <2>1. stage' = [stage EXCEPT ![p] = "writing"] /\ UNCHANGED <<control, guards, outcome>>
    BY <1>5 DEF ReceiveReply
  <2>2. stage'[p] = "writing" /\ Queued' = Queued
    BY <1>1, <1>2, <2>1 DEF Queued
  <2>3. Rules(p)'
    BY <1>1, <1>2, <1>3, <1>5, <2>1, <2>2 DEF Rules
  <2>4. "writing" \in Stages \ {"answered"}
    BY ZenonT(100) DEF Stages
  <2> QED BY <1>1, <1>2, <2>1, <2>3, <2>4, ProceedInv
<1>6. CASE reply[p] = "refused"
  <2>1. Reply(p, "unallocated") /\ Cancel(p)
    BY <1>6 DEF ReceiveReply
  <2>2. control[p] # "COMMITTING"
    <3>1. p \notin committing
      BY <1>3, CommittingQueued
    <3> QED BY <1>2, <1>6, <3>1 DEF Rules, Told
  <2> QED BY <1>1, <1>3, <1>4, <1>6, <2>1, <2>2, AnswerInv
<1>7. CASE reply[p] = "duplicate"
  <2>1. Reply(p, "duplicate") /\ UNCHANGED control
    BY <1>7 DEF ReceiveReply
  <2> QED BY <1>1, <1>3, <1>4, <1>7, <2>1, AnswerKeeping
<1>8. CASE reply[p] = "disconnected"
  <2>1. MissingCommit(p)
    BY <1>8 DEF ReceiveReply
  <2>2. PICK o \in {"unallocated", "unknown"} :
          Reply(p, o) /\ (o = "unallocated" => control[p] # "COMMITTING")
    BY <2>1 DEF MissingCommit, CancelSucceeds
  <2>3. Cancel(p)
    BY <2>1 DEF MissingCommit
  <2> QED BY <1>1, <1>3, <1>4, <1>8, <2>2, <2>3, AnswerInv
<1> QED BY <1>1, <1>2, <1>5, <1>6, <1>7, <1>8 DEF Replies

LEMMA SettleAppendInv ==
  ASSUME ProposalInv, NEW p \in Proposals, SettleAppend(p)
  PROVE  ProposalInv'
<1>1. /\ stage[p] = "writing" /\ Reply(p, "committed")
      /\ UNCHANGED <<next, prepared, control, commands, committing, reply, allocated, running,
                     others>>
  BY ZenonT(100) DEF SettleAppend
<1>2. p \notin Queued
  BY <1>1, ProposalFacts DEF Rules
<1>3. "committed" \in ProposalOutcomes \ {"none"}
  BY DEF ProposalOutcomes
<1> QED BY <1>1, <1>2, <1>3, AnswerKeeping

-----------------------------------------------------------------------------
LEMMA BeginCommitInv ==
  ASSUME ProposalInv, NEW p \in Proposals, BeginCommit(p)
  PROVE  ProposalInv'
<1>1. /\ committing = {} /\ commands # << >> /\ p = Head(commands) /\ committing' = {p}
      /\ Earlier(p) = {} /\ prepared[p] = next /\ control[p] = "PENDING"
      /\ control' = [control EXCEPT ![p] = "COMMITTING"]
      /\ UNCHANGED <<next, prepared, stage, commands, reply, guards, allocated, outcome, running,
                     others>>
  BY DEF BeginCommit, MayCommit, ProposalCurrent
<1>2. p \in Queued
  <2>1. commands \in Seq(Proposals)
    BY DEF ProposalInv, ProposalTypeOK
  <2>2. 1 \in DOMAIN commands /\ commands[1] = p
    BY <1>1, <2>1
  <2> QED BY <2>2 DEF Queued
<1>3. /\ Rules(p) /\ control \in [Proposals -> {"PENDING", "CANCELLED", "COMMITTING"}]
      /\ outcome[p] \in ProposalOutcomes
  BY ProposalFacts
<1>4. control'[p] = "COMMITTING" /\ Queued' = Queued
  BY <1>1, <1>3 DEF Queued
<1>5. ProposalTypeOK'
  BY ZenonT(100), <1>1 DEF ProposalInv, ProposalTypeOK
<1>6. Exclusive' /\ Distinct'
  BY <1>1 DEF ProposalInv, Exclusive, Distinct, Allocated
<1>7. Commit'
  BY ZenonT(100), <1>1, <1>4 DEF Commit, Earlier, Allocated
<1>8. Rules(p)'
  <2>1. stage[p] \in {"waiting", "late"} /\ outcome[p] = "none"
    BY <1>1, <1>2, <1>3 DEF Rules
  <2> QED BY <1>1, <1>2, <1>3, <1>4, <2>1 DEF Rules
<1>9. ASSUME NEW q \in Proposals, q # p PROVE Rules(q)'
  <2>1. control'[q] = control[q] /\ next' \in Nat /\ next' >= next
    BY <1>1, <1>3, <1>9 DEF ProposalInv, ProposalTypeOK
  <2> QED BY <1>1, <1>4, <1>9, <2>1, OthersKept
<1> QED BY <1>5, <1>6, <1>7, <1>8, <1>9 DEF ProposalInv

\* An allocation takes coordinates above every earlier one, for an identity
\* that has none.
LEMMA AllocateFacts ==
  ASSUME ProposalInv, NEW p \in committing, Allocate(p)
  PROVE  /\ Exclusive' /\ next' \in Nat /\ next' = next + 1 /\ next' >= next
         /\ allocated' \in [Proposals -> Nat \cup {-1}]
         /\ allocated'[p] = prepared[p] /\ allocated'[p] < next' /\ allocated'[p] # -1
         /\ \A q \in Proposals \ {p} : allocated'[q] = allocated[q]
<1>1. /\ p \in Proposals /\ prepared[p] = next /\ Earlier(p) = {}
  BY CommittingQueued DEF ProposalInv, Commit
<1>2. /\ next \in Nat /\ allocated \in [Proposals -> Nat \cup {-1}] /\ Exclusive
      /\ \A q \in Proposals : Rules(q)
  BY DEF ProposalInv, ProposalTypeOK
<1>3. /\ allocated' = [allocated EXCEPT ![p] = next] /\ next' = next + 1
  BY DEF Allocate
<1>4. /\ allocated'[p] = next /\ \A q \in Proposals \ {p} : allocated'[q] = allocated[q]
  BY <1>1, <1>2, <1>3
<1>5. ASSUME NEW q \in Proposals \ {p}, allocated[q] # -1
      PROVE  allocated[q] # next /\ Input[q] # Input[p]
  <2>1. allocated[q] < next
    BY <1>2, <1>5 DEF Rules
  <2>2. q \in Allocated \ {p}
    BY <1>5 DEF Allocated
  <2> QED BY <1>1, <1>2, <2>1, <2>2 DEF Earlier
<1>6. Exclusive'
  <2> SUFFICES ASSUME NEW q \in Proposals, NEW r \in Proposals, allocated'[q] # -1,
                      allocated'[r] # -1, q # r
               PROVE  allocated'[q] # allocated'[r] /\ Input[q] # Input[r]
    BY DEF Exclusive, Allocated
  <2>1. CASE q = p
    BY <1>4, <1>5, <2>1
  <2>2. CASE r = p
    BY <1>4, <1>5, <2>2
  <2>3. CASE q # p /\ r # p
    BY ZenonT(100), <1>2, <1>4, <2>3 DEF Exclusive, Allocated
  <2> QED BY <2>1, <2>2, <2>3
<1> QED BY <1>1, <1>2, <1>3, <1>4, <1>6

LEMMA FinishCommitInv ==
  ASSUME ProposalInv, NEW p \in Proposals, FinishCommit(p)
  PROVE  ProposalInv'
<1>1. /\ p \in committing /\ Allocate(p) /\ reply' = [reply EXCEPT ![p] = "reserved"]
      /\ committing' = {} /\ commands' = Tail(commands)
      /\ UNCHANGED <<prepared, stage, control, guards, outcome, running, others>>
  BY DEF FinishCommit
<1>2. p \in Queued /\ p = Head(commands) /\ commands # << >> /\ control[p] = "COMMITTING"
      /\ committing = {p}
  BY <1>1, CommittingQueued DEF ProposalInv, Commit
<1>3. /\ Queued' = Queued \ {p} /\ Distinct'
      /\ commands' \in Seq(Proposals) /\ Len(commands') <= QueueSize
  BY <1>1, <1>2, TailQueued
<1>4. /\ Rules(p) /\ reply \in [Proposals -> Replies] /\ outcome[p] \in ProposalOutcomes
  BY DEF ProposalInv, ProposalTypeOK
<1>5. /\ Exclusive' /\ next' \in Nat /\ next' >= next
      /\ allocated' \in [Proposals -> Nat \cup {-1}]
      /\ allocated'[p] = prepared[p] /\ allocated'[p] < next' /\ allocated'[p] # -1
      /\ \A q \in Proposals \ {p} : allocated'[q] = allocated[q]
  BY <1>1, AllocateFacts
<1>6. ProposalTypeOK'
  BY <1>1, <1>3, <1>5 DEF ProposalInv, ProposalTypeOK, Replies
<1>7. Commit'
  BY <1>1 DEF Commit
<1>8. reply'[p] = "reserved" /\ \A q \in Proposals \ {p} : reply'[q] = reply[q]
  BY <1>1, <1>4
<1>9. Rules(p)'
  <2>1. stage[p] \in {"waiting", "late"} /\ outcome[p] = "none"
    BY <1>2, <1>4 DEF Rules
  <2> QED BY <1>1, <1>2, <1>3, <1>4, <1>5, <1>8, <2>1 DEF Rules, Told
<1>10. ASSUME NEW q \in Proposals, q # p PROVE Rules(q)'
  <2>1. /\ q \notin committing /\ (q \in Queued' <=> q \in Queued) /\ reply'[q] = reply[q]
        /\ allocated'[q] = allocated[q]
    BY <1>2, <1>3, <1>5, <1>8, <1>10
  <2> QED BY <1>1, <1>5, <1>10, <2>1, OthersKept
<1> QED BY <1>3, <1>5, <1>6, <1>7, <1>9, <1>10 DEF ProposalInv

LEMMA RefuseCommitInv ==
  ASSUME ProposalInv, NEW p \in Proposals, RefuseCommit(p)
  PROVE  ProposalInv'
<1>1. /\ committing = {} /\ commands # << >> /\ p = Head(commands)
      /\ commands' = Tail(commands)
      /\ UNCHANGED <<next, prepared, stage, control, committing, guards, allocated, outcome,
                     running, others>>
  BY DEF RefuseCommit
<1>2. PICK r \in {"duplicate", "refused"} : reply' = [reply EXCEPT ![p] = r]
  BY DEF RefuseCommit
<1>3. /\ Queued' = Queued \ {p} /\ Distinct' /\ p \in Queued
      /\ commands' \in Seq(Proposals) /\ Len(commands') <= QueueSize
  BY <1>1, TailQueued
<1>4. /\ Rules(p) /\ reply \in [Proposals -> Replies] /\ next \in Nat
  BY DEF ProposalInv, ProposalTypeOK
<1>5. ProposalTypeOK'
  BY <1>1, <1>2, <1>3 DEF ProposalInv, ProposalTypeOK, Replies
<1>6. Commit' /\ Exclusive'
  BY <1>1 DEF ProposalInv, Commit, Exclusive, Allocated
<1>7. reply'[p] = r /\ \A q \in Proposals \ {p} : reply'[q] = reply[q]
  BY ZenonT(100), <1>2, <1>4
<1>8. Rules(p)'
  <2>1. /\ stage[p] \in {"waiting", "late", "answered"} /\ control[p] # "COMMITTING"
        /\ allocated[p] = -1
    BY <1>1, <1>3, <1>4 DEF Rules, Told
  <2> QED BY ZenonT(100), <1>1, <1>3, <1>4, <1>7, <2>1 DEF Rules, Told
<1>9. ASSUME NEW q \in Proposals, q # p PROVE Rules(q)'
  <2>1. (q \in Queued' <=> q \in Queued) /\ reply'[q] = reply[q] /\ next' >= next /\ next' \in Nat
    BY <1>1, <1>3, <1>4, <1>7, <1>9
  <2> QED BY <1>1, <1>9, <2>1, OthersKept
<1> QED BY <1>3, <1>5, <1>6, <1>8, <1>9 DEF ProposalInv

LEMMA OtherReservationInv ==
  ASSUME ProposalInv, OtherReservation
  PROVE  ProposalInv'
<1>1. /\ committing = {} /\ others < MaxOther /\ others' = others + 1 /\ next' = next + 1
      /\ UNCHANGED <<prepared, stage, control, commands, committing, reply, guards, allocated,
                     outcome, running>>
  BY DEF OtherReservation
<1>2. next \in Nat /\ others \in 0..MaxOther
  BY DEF ProposalInv, ProposalTypeOK
<1>3. next' \in Nat /\ next' >= next /\ others' \in 0..MaxOther
  BY <1>1, <1>2, ProposalAssumption
<1>4. ProposalTypeOK' /\ Distinct' /\ Commit' /\ Exclusive' /\ Queued' = Queued
  BY <1>1, <1>3 DEF ProposalInv, ProposalTypeOK, Distinct, Commit, Exclusive, Allocated, Queued
<1>5. ASSUME NEW q \in Proposals PROVE Rules(q)'
  BY <1>1, <1>3, <1>4, OthersKept
<1> QED BY <1>4, <1>5 DEF ProposalInv

LEMMA CoordinatorStopsInv ==
  ASSUME ProposalInv, CoordinatorStops
  PROVE  ProposalInv'
<1>1. /\ running' = FALSE /\ commands' = << >> /\ committing' = {}
      /\ reply' = [p \in Proposals |-> IF p \in Queued THEN "disconnected" ELSE reply[p]]
      /\ UNCHANGED <<prepared, stage, control, guards, outcome, others>>
  BY DEF CoordinatorStops, Queued
<1>2. /\ next \in Nat /\ allocated \in [Proposals -> Nat \cup {-1}] /\ Exclusive
      /\ reply \in [Proposals -> Replies]
  BY DEF ProposalInv, ProposalTypeOK
<1>3. PICK made \in SUBSET committing :
        /\ Exclusive' /\ next' \in Nat /\ next' >= next
        /\ allocated' \in [Proposals -> Nat \cup {-1}]
        /\ \A q \in made : allocated'[q] = prepared[q] /\ allocated'[q] < next'
        /\ \A q \in Proposals \ made : allocated'[q] = allocated[q]
  <2>1. CASE UNCHANGED <<next, allocated>>
    <3>1. Exclusive' /\ next' >= next
      BY <1>2, <2>1 DEF Exclusive, Allocated
    <3>2. {} \in SUBSET committing
      OBVIOUS
    <3> QED BY <1>2, <2>1, <3>1, <3>2
  <2>2. CASE \E p \in committing : Allocate(p)
    <3>1. PICK p \in committing : Allocate(p)
      BY <2>2
    <3>2. {p} \in SUBSET committing
      OBVIOUS
    <3> QED BY <3>1, <3>2, AllocateFacts
  <2> QED BY <2>1, <2>2 DEF CoordinatorStops
<1>4. ProposalTypeOK'
  <2>1. reply' \in [Proposals -> Replies]
    BY <1>1, <1>2 DEF Replies
  <2>2. << >> \in Seq(Proposals) /\ Len(<< >>) = 0
    OBVIOUS
  <2>3. commands' \in Seq(Proposals) /\ Len(commands') <= QueueSize
    BY <1>1, <2>2, ProposalAssumption
  <2> QED BY <1>1, <1>3, <2>1, <2>3 DEF ProposalInv, ProposalTypeOK
<1>5. Distinct' /\ Commit' /\ Queued' = {}
  BY <1>1 DEF Distinct, Commit, Queued
<1>6. ASSUME NEW q \in Proposals PROVE Rules(q)'
  <2>1. /\ Rules(q) /\ reply'[q] = IF q \in Queued THEN "disconnected" ELSE reply[q]
        /\ allocated[q] \in Nat \cup {-1}
    BY <1>1, <1>2 DEF ProposalInv
  <2>2. q \in committing => q \in Queued /\ control[q] = "COMMITTING"
    BY CommittingQueued DEF ProposalInv, Commit
  <2>3. allocated'[q] # -1 => /\ control[q] = "COMMITTING" /\ reply'[q] \in Told
                              /\ allocated'[q] = prepared[q] /\ allocated'[q] < next'
    <3>1. CASE q \in made
      BY <1>3, <2>1, <2>2, <3>1 DEF Told
    <3>2. CASE q \notin made
      <4>1. allocated'[q] = allocated[q]
        BY <1>3, <3>2
      <4>2. allocated[q] # -1 => /\ control[q] = "COMMITTING" /\ reply[q] \in Told
                                 /\ allocated[q] = prepared[q] /\ allocated[q] < next
        BY ZenonT(100), <2>1 DEF Rules
      <4>3. reply[q] \in Told => reply'[q] \in Told
        BY ZenonT(100), <2>1 DEF Told
      <4>4. allocated[q] < next => allocated[q] < next'
        BY <1>2, <1>3, <2>1
      <4> QED BY ZenonT(100), <4>1, <4>2, <4>3, <4>4
    <3> QED BY <3>1, <3>2
  <2>4. control[q] = "COMMITTING" => reply'[q] \in Told
    BY <2>1, <2>2 DEF Rules, Told
  <2>5. q \in Queued => stage[q] \in {"waiting", "late", "answered"} /\ reply'[q] = "disconnected"
    BY <2>1 DEF Rules
  <2> QED BY <1>1, <1>5, <2>1, <2>3, <2>4, <2>5 DEF Rules
<1> QED BY <1>3, <1>4, <1>5, <1>6 DEF ProposalInv

-----------------------------------------------------------------------------
LEMMA ProposalInitInv == ProposalInit => ProposalInv
<1> SUFFICES ASSUME ProposalInit PROVE ProposalInv
  OBVIOUS
<1>1. << >> \in Seq(Proposals) /\ Len(<< >>) = 0
  OBVIOUS
<1>2. ProposalTypeOK
  BY <1>1, ProposalAssumption
     DEF ProposalInit, ProposalTypeOK, Stages, Replies, ProposalOutcomes
<1>3. Distinct /\ Commit /\ Exclusive /\ Queued = {}
  BY DEF ProposalInit, Distinct, Commit, Exclusive, Queued, Allocated
<1>4. \A p \in Proposals : Rules(p)
  BY <1>3 DEF ProposalInit, Rules
<1> QED BY <1>2, <1>3, <1>4 DEF ProposalInv

LEMMA ProposalNextInv == ProposalInv /\ [ProposalNext]_pvars => ProposalInv'
<1> SUFFICES ASSUME ProposalInv, [ProposalNext]_pvars PROVE ProposalInv'
  OBVIOUS
<1>1. CASE UNCHANGED pvars
  <2>1. ProposalTypeOK' /\ Distinct' /\ Commit' /\ Exclusive'
    BY <1>1 DEF pvars, ProposalInv, ProposalTypeOK, Distinct, Commit, Exclusive, Allocated, Earlier
  <2>2. \A p \in Proposals : Rules(p)'
    BY ZenonT(100), <1>1 DEF pvars, ProposalInv, Rules, Queued
  <2> QED BY <2>1, <2>2 DEF ProposalInv
<1>2. CASE \E p \in Proposals :
             \/ Prepare(p) \/ PrepareRetry(p) \/ DropTicket(p) \/ ProposalWorkerStep(p)
             \/ CommitTimesOut(p) \/ CoordinatorStep(p)
  BY <1>2, PrepareInv, PrepareRetryInv, DropTicketInv, ResolveInv, SendCommitInv,
     ReceiveReplyInv, SettleAppendInv, CommitTimesOutInv, BeginCommitInv, FinishCommitInv,
     RefuseCommitInv
     DEF ProposalWorkerStep, CoordinatorStep
<1> QED BY <1>1, <1>2, OtherReservationInv, CoordinatorStopsInv DEF ProposalNext

\* Whatever order callers, workers, deadlines and the coordinator take, the
\* control word, the reply and the queue agree on who owns a proposal.
THEOREM ProposalInvariance == ProposalSpec => []ProposalInv
BY ProposalInitInv, ProposalNextInv, PTL DEF ProposalSpec

\* Guarded proposals are allocated once per identity, at the admitted
\* coordinates, owned until they are answered, and never after an Unallocated
\* answer (commit_proposed_reservation, CommitControl, await_commit).
THEOREM ProposalsAlwaysSafe == ProposalSpec => []ProposalSafe
<1>1. ProposalInv => ProposalSafe
  <2> SUFFICES ASSUME ProposalInv PROVE ProposalSafe
    OBVIOUS
  <2>1. \A p \in Proposals : Rules(p)
    BY DEF ProposalInv
  <2>2. UnallocatedIsFinal
    BY <2>1 DEF UnallocatedIsFinal, Rules
  <2>3. committing \subseteq guards
    <3> SUFFICES ASSUME NEW p \in committing PROVE p \in guards
      OBVIOUS
    <3>1. p \in Queued /\ p \in Proposals /\ control[p] = "COMMITTING"
      BY CommittingQueued DEF ProposalInv, Commit
    <3> QED BY <2>1, <3>1 DEF Rules
  <2>4. ASSUME NEW p \in Allocated PROVE p \in guards \/ outcome[p] = "committed" \/ ~running
    BY ZenonT(100), <2>1, <2>4 DEF Rules, Told, Allocated
  <2>5. AllocatedAsAdmitted
    BY ZenonT(100), <2>1 DEF AllocatedAsAdmitted, ProposalInv, Exclusive, Rules, Allocated
  <2>6. RetryAllocatesOnce
    BY DEF RetryAllocatesOnce, ProposalInv, Exclusive
  <2> QED BY <2>2, <2>3, <2>4, <2>5, <2>6 DEF ProposalSafe, ProposalInv, AllocationOwned
<1> QED BY <1>1, ProposalInvariance, PTL
=============================================================================
