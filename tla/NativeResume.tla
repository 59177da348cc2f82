----------------------------- MODULE NativeResume ------------------------------
(***************************************************************************)
(* The bounded calls an owner of a recovered engine makes before it        *)
(* serves: resume_recovered_replication_until hands every retained batch   *)
(* to the replication transport again, collect_garbage_until collects in   *)
(* every lane.  native_resume.rs, native_resume_gc.rs, coordinator_resume.rs. *)
(*                                                                         *)
(* A call runs in one thread under one cumulative budget and one absolute  *)
(* expiry.  It enters jobs that other threads finish: a read of the        *)
(* coordinator, a ticket of the transport, a collection of a lane.  A job  *)
(* that was entered is waited for whatever has been refused since, and     *)
(* its result is retained before the budget is asked again.                *)
(***************************************************************************)
EXTENDS Integers, Sequences, FiniteSets, SequencesExt

CONSTANTS
  ResumeCases,      \* the calls: [kind, parts, transport, lanes, limits]
  LogEnd,           \* per partition its contiguous end; offset o is batch o
  MaxPass,          \* batches one bounded fetch may return
  MaxResumeFaults   \* refusals and panics of the code the call calls

VARIABLES
  resume,           \* the calling thread and its Scope
  purse,            \* NativeResumeWork: counters, denials; and the expiry
  job,              \* the job entered and not yet received
  logStart,         \* per partition, moved by retention meanwhile
  outer             \* how often the captured health has been denied

resumeVars == <<resume, purse, job, logStart, outer>>

Counters == {"partitions", "batches", "steps", "jobs", "passes"}
NoJob == [at |-> "none"]

ResumeInit ==
  \E c \in ResumeCases :
    /\ resume = [case |-> c, pc |-> "start", part |-> 1, offset |-> 0, end |-> 0,
                 ranges |-> <<>>, batches |-> <<>>, outcomes |-> <<>>, sent |-> <<>>,
                 lane |-> 1, checks |-> "none", preentry |-> FALSE, faults |-> 0,
                 result |-> "none"]
    /\ purse = [used |-> [k \in Counters |-> 0], denied |-> FALSE, fetch |-> FALSE,
                dir |-> IF c.kind = "collect" THEN "open" ELSE "absent", late |-> FALSE]
    /\ job = NoJob
    /\ logStart = [p \in DOMAIN LogEnd |-> 0]
    /\ outer = 0

Goes(r, pc) == [r EXCEPT !.pc = pc]
Retained(r, o) == [r EXCEPT !.outcomes = Append(@, o)]
Faultable == resume.faults < MaxResumeFaults
FaultyRun == [resume EXCEPT !.faults = @ + 1]

-----------------------------------------------------------------------------
(* charge: the directory's own budget first, whose refusal denies the      *)
(* fetches; then the expiry; then the counters, where passing a limit      *)
(* denies this budget but neither the fetches nor the directory.           *)
DirectoryRefuses(b) == b.dir = "denied" \/ (b.dir = "open" /\ b.late)

Charge(b, debit) ==
  LET next == [k \in Counters |-> b.used[k] + IF k \in DOMAIN debit THEN debit[k] ELSE 0]
  IN  IF DirectoryRefuses(b) THEN [ok |-> FALSE, b |-> [b EXCEPT !.fetch = TRUE]]
      ELSE IF b.late \/ b.denied THEN [ok |-> FALSE, b |-> b]
      ELSE IF \E k \in Counters : next[k] > resume.case.limits[k]
           THEN [ok |-> FALSE, b |-> [b EXCEPT !.denied = TRUE]]
      ELSE [ok |-> TRUE, b |-> [b EXCEPT !.used = next]]

(* Several charges in a row, the first refusal ends them. *)
Charges(b, debits) ==
  FoldLeft(LAMBDA a, d : IF a.ok THEN Charge(a.b, d) ELSE a, [ok |-> TRUE, b |-> b], debits)

CheckWork(b) == Charge(b, <<>>)

Debit(k, n) == [i \in {k} |-> n]
OutcomeFee(n) == Debit("steps", n)
CommandFee(steps) == [k \in {"jobs", "steps"} |-> IF k = "jobs" THEN 1 ELSE steps]

WorkDenied(b) == [b EXCEPT !.denied = TRUE, !.fetch = TRUE,
                !.dir = IF @ = "absent" THEN @ ELSE "denied"]

(* Observation::completed: the result first, then the budget; either       *)
(* failing denies.                                                         *)
ReadCompleted(ok, b) ==
  LET after == CheckWork(b)
  IN  [ok |-> ok /\ after.ok, b |-> IF ok /\ after.ok THEN after.b ELSE WorkDenied(after.b)]

-----------------------------------------------------------------------------
(* start_owned and start_inner.  Before there is a Scope a refusal keeps   *)
(* only the engine; a collection's policy is denied on every such path.    *)
StartEarly ==
  /\ resume.pc = "start"
  /\ \/ ~CheckWork(purse).ok /\ resume' = [Goes(resume, "returned") EXCEPT !.result = "refused"]
     \/ Faultable /\ resume' = [Goes(FaultyRun, "returned") EXCEPT !.result = "refused"]
  /\ purse' = IF purse.dir = "absent" THEN purse ELSE [purse EXCEPT !.dir = "denied"]
  /\ outer' = IF purse.dir = "absent" THEN outer ELSE outer + 1
  /\ UNCHANGED <<job, logStart>>

StartScope ==
  /\ resume.pc = "start"
  /\ CheckWork(purse).ok
  /\ resume' = Goes(resume, IF resume.case.kind = "collect" THEN "lane" ELSE "enter")
  /\ UNCHANGED <<purse, job, logStart, outer>>

(* resume_recovered_replication_until: nothing to do without a transport. *)
EnterReplay ==
  /\ resume.pc = "enter"
  /\ LET c == CheckWork(purse) IN
     /\ purse' = c.b
     /\ resume' = Goes(resume, IF ~c.ok \/ Len(resume.case.parts) > resume.case.limits["partitions"]
                              THEN "fail"
                              ELSE IF ~resume.case.transport THEN "finish" ELSE "partition")
  /\ UNCHANGED <<job, logStart, outer>>

BeforePartition ==
  /\ resume.pc = "partition"
  /\ IF resume.part > Len(resume.case.parts)
     THEN resume' = Goes(resume, "finish") /\ UNCHANGED purse
     ELSE LET c == Charge(purse, Debit("partitions", 1)) IN
          /\ purse' = c.b
          /\ resume' = Goes(resume, IF c.ok THEN "watermarks" ELSE "fail")
  /\ UNCHANGED <<job, logStart, outer>>

(* Scope::watermarks and resume_read: the outcome's slot is paid first, a  *)
(* refusal after that is retained as an outcome; a full queue denies.      *)
ResumePartition == resume.case.parts[resume.part]

AskWatermarks ==
  /\ resume.pc = "watermarks"
  /\ LET slot == Charge(purse, OutcomeFee(1))
         c == Charges(slot.b, <<CommandFee(0)>>)
         refused(r) == Goes(Retained(r, <<"read", ResumePartition, FALSE>>), "fail")
     IN  \/ ~slot.ok /\ resume' = Goes(resume, "fail") /\ purse' = slot.b /\ UNCHANGED job
         \/ slot.ok /\ ~c.ok /\ resume' = refused(resume) /\ purse' = c.b /\ UNCHANGED job
         \/ /\ slot.ok /\ c.ok
            /\ \/ /\ resume' = Goes(resume, "read")
                  /\ job' = [at |-> "queued", kind |-> "read", what |-> ResumePartition]
                  /\ purse' = c.b
               \/ /\ Faultable
                  /\ resume' = refused(FaultyRun)
                  /\ purse' = ReadCompleted(FALSE, c.b).b
                  /\ UNCHANGED job
  /\ UNCHANGED <<logStart, outer>>

(* coordinator_resume::execute, in the coordinator's thread. *)
CoordinatorReads ==
  /\ job.at = "queued" /\ job.kind = "read"
  /\ LET c == Charges(purse, <<<<>>, <<>>>>)
         done == ReadCompleted(c.ok, c.b)
     IN  /\ job' = [at |-> "answered", kind |-> "read", what |-> job.what, ok |-> done.ok,
                    start |-> logStart[job.what], end |-> LogEnd[job.what]]
         /\ purse' = done.b
  /\ UNCHANGED <<resume, logStart, outer>>

ReceiveRead ==
  /\ resume.pc = "read" /\ job.at = "answered"
  /\ LET r == Retained(resume, <<"read", job.what, job.ok>>)
     IN  resume' = IF job.ok
                   THEN [Goes(r, "fetch") EXCEPT !.offset = job.start, !.end = job.end,
                           !.ranges = Append(@, <<job.what, job.start, job.end>>)]
                   ELSE Goes(r, "fail")
  /\ job' = NoJob
  /\ UNCHANGED <<purse, logStart, outer>>

(* fetch_stored under the same fetch budget: consecutive batches from the  *)
(* offset, refused below the start retention has moved to.                 *)
FetchPass ==
  /\ resume.pc = "fetch"
  /\ IF resume.offset >= resume.end
     THEN resume' = [Goes(resume, "partition") EXCEPT !.part = @ + 1] /\ UNCHANGED purse
     ELSE LET c == Charge(purse, Debit("passes", 1)) IN
          /\ purse' = c.b
          /\ \/ /\ ~c.ok \/ c.b.fetch \/ resume.offset < logStart[ResumePartition]
                /\ resume' = Goes(resume, "fail")
             \/ /\ c.ok /\ ~c.b.fetch /\ resume.offset >= logStart[ResumePartition]
                /\ \E n \in 1 .. MaxPass :
                     /\ resume.offset + n <= LogEnd[ResumePartition]
                     /\ resume' = [Goes(resume, "batch") EXCEPT
                                     !.batches = [i \in 1 .. n |-> resume.offset + i - 1]]
  /\ UNCHANGED <<job, logStart, outer>>

(* before_batch and StrictReplication::replicate up to the ticket, which   *)
(* is kept before the budget is asked again; the offset moves first.       *)
BeginReplicate ==
  /\ resume.pc = "batch" /\ resume.batches # <<>>
  /\ LET b == Head(resume.batches)
         c == Charges(purse, <<Debit("batches", 1), OutcomeFee(2), CommandFee(0)>>)
         moved(r) == [r EXCEPT !.offset = b + 1, !.batches = Tail(@)]
         what == <<ResumePartition, b>>
     IN  \/ ~c.ok /\ resume' = Goes(resume, "fail") /\ purse' = c.b /\ UNCHANGED job
         \/ /\ c.ok
            /\ purse' = c.b
            /\ \/ /\ resume' = Retained(Goes(moved(resume), "drain"), <<"started", what, TRUE>>)
                  /\ job' = [at |-> "queued", kind |-> "replicate", what |-> what]
               \/ /\ Faultable
                  /\ resume' = Retained(Goes(moved(FaultyRun), "fail"), <<"started", what, FALSE>>)
                  /\ UNCHANGED job
  /\ UNCHANGED <<logStart, outer>>

BatchesDone ==
  /\ resume.pc = "batch" /\ resume.batches = <<>>
  /\ resume' = Goes(resume, "fetch")
  /\ UNCHANGED <<purse, job, logStart, outer>>

(* The transport finishes its ticket: durable on the followers, refused,   *)
(* or dropped unanswered.                                                  *)
TransportAnswers ==
  /\ job.at = "queued" /\ job.kind = "replicate"
  /\ \/ /\ job' = [at |-> "answered", kind |-> "replicate", what |-> job.what, ok |-> TRUE]
        /\ resume' = [resume EXCEPT !.sent = Append(@, job.what)]
     \/ /\ Faultable
        /\ job' = [at |-> "answered", kind |-> "replicate", what |-> job.what, ok |-> FALSE]
        /\ resume' = FaultyRun
  /\ UNCHANGED <<purse, logStart, outer>>

(* drain_replication: the result is kept, then the budget asked. *)
DrainReplication ==
  /\ resume.pc = "drain" /\ job.at = "answered"
  /\ LET c == CheckWork(purse)
         ok == job.ok /\ c.ok
     IN  /\ resume' = Retained(Goes(resume, IF ok THEN "batch" ELSE "fail"),
                             <<"completed", job.what, job.ok>>)
         /\ purse' = c.b
  /\ job' = NoJob
  /\ UNCHANGED <<logStart, outer>>

-----------------------------------------------------------------------------
(* Checks::deny: the shared budget, and the captured health at most once   *)
(* for each lane's policy.                                                 *)
DenyPolicy(r) == [r EXCEPT !.checks = "denied"]
PolicyDenials(r) == IF r.checks = "fresh" THEN outer + 1 ELSE outer

(* collect_owned, one lane: everything is paid, a fresh Checks wraps the   *)
(* caller's policy, the command is entered, and the budget asked again.    *)
BeginCollect ==
  /\ resume.pc = "lane"
  /\ LET c == Charges(purse, <<OutcomeFee(1), CommandFee(1)>>)
         armed(r) == [r EXCEPT !.checks = "fresh"]
     IN  IF resume.lane > resume.case.lanes
         THEN resume' = Goes(resume, "finish") /\ UNCHANGED <<purse, job, outer>>
         ELSE \/ ~c.ok /\ resume' = Goes(resume, "fail") /\ purse' = c.b /\ UNCHANGED <<job, outer>>
              \/ /\ c.ok
                 /\ \/ /\ resume' = Goes(armed(resume), "laneDrain")
                       /\ job' = [at |-> "queued", kind |-> "collect", what |-> resume.lane]
                       /\ purse' = c.b
                       /\ UNCHANGED outer
                    \/ /\ Faultable
                       /\ resume' = Retained(Goes(DenyPolicy(armed(FaultyRun)), "fail"),
                                           <<"collected", resume.lane, FALSE>>)
                       /\ purse' = WorkDenied(c.b)
                       /\ outer' = outer + 1
                       /\ UNCHANGED job
  /\ UNCHANGED logStart

(* The lane runs the command: it asks the policy, and denies it before any *)
(* cleanup when it refuses or the store fails.                             *)
LaneRuns ==
  /\ job.at = "queued" /\ job.kind = "collect"
  /\ LET c == CheckWork(purse)
         answer(ok) == [at |-> "answered", kind |-> "collect", what |-> job.what, ok |-> ok]
     IN  \/ c.ok /\ job' = answer(TRUE) /\ purse' = c.b /\ UNCHANGED <<resume, outer>>
         \/ /\ ~c.ok \/ Faultable
            /\ job' = answer(FALSE)
            /\ purse' = WorkDenied(c.b)
            /\ outer' = PolicyDenials(resume)
            /\ resume' = DenyPolicy(IF c.ok THEN FaultyRun ELSE resume)
  /\ UNCHANGED logStart

(* The check after entry: a refusal denies the policy while the lane may   *)
(* still be running, and the ticket is waited for all the same.            *)
DenyEntered ==
  /\ resume.pc = "laneDrain" /\ ~CheckWork(purse).ok /\ resume.checks = "fresh"
  /\ purse' = WorkDenied(purse)
  /\ outer' = PolicyDenials(resume)
  /\ resume' = DenyPolicy(resume)
  /\ UNCHANGED <<job, logStart>>

DrainCollect ==
  /\ resume.pc = "laneDrain" /\ job.at = "answered"
  /\ LET c == CheckWork(purse)
         r == Retained(resume, <<"collected", job.what, job.ok>>)
     IN  /\ resume' = IF job.ok /\ c.ok THEN [Goes(r, "lane") EXCEPT !.lane = @ + 1]
                      ELSE Goes(r, "fail")
         /\ purse' = c.b
  /\ job' = NoJob
  /\ UNCHANGED <<logStart, outer>>

-----------------------------------------------------------------------------
(* A panic anywhere in the loop is caught outside it: deny, then fail. *)
UnwindResume ==
  /\ resume.pc \in {"enter", "partition", "watermarks", "fetch", "batch", "drain", "lane",
                    "laneDrain"}
  /\ Faultable
  /\ resume' = Goes(FaultyRun, "fail")
  /\ purse' = WorkDenied(purse)
  /\ UNCHANGED <<job, logStart, outer>>

(* Scope::fail: deny everything, the policy included (the caller's own one *)
(* when no lane has wrapped it yet), then drain what is pending.           *)
FailDeny ==
  /\ resume.pc = "fail"
  /\ purse' = WorkDenied(purse)
  /\ LET own == resume.case.kind = "collect" /\ resume.checks = "none" /\ ~resume.preentry
     IN  /\ outer' = IF own THEN outer + 1 ELSE PolicyDenials(resume)
         /\ resume' = [Goes(resume, "failDrain") EXCEPT
                         !.preentry = own \/ @,
                         !.checks = IF @ = "fresh" THEN "denied" ELSE @]
  /\ UNCHANGED <<job, logStart>>


FailDrain ==
  /\ resume.pc = "failDrain" /\ job.at # "queued"
  /\ LET r == IF job.at = "none" THEN resume
              ELSE Retained(resume, <<IF job.kind = "replicate" THEN "completed" ELSE "collected",
                                    job.what, job.ok>>)
     IN  resume' = [Goes(r, "returned") EXCEPT !.result = "refused"]
  /\ job' = NoJob
  /\ UNCHANGED <<purse, logStart, outer>>

FinishResume ==
  /\ resume.pc = "finish"
  /\ LET c == CheckWork(purse) IN
     /\ purse' = c.b
     /\ resume' = IF c.ok THEN [Goes(resume, "returned") EXCEPT !.result = "report"]
                  ELSE Goes(resume, "fail")
  /\ UNCHANGED <<job, logStart, outer>>

-----------------------------------------------------------------------------
(* The expiry passes; another holder of the directory budget denies it;    *)
(* retention moves a start.                                                *)
ExpiryPasses ==
  /\ ~purse.late /\ resume.pc # "returned"
  /\ purse' = [purse EXCEPT !.late = TRUE]
  /\ UNCHANGED <<resume, job, logStart, outer>>

SiblingDenies ==
  /\ purse.dir = "open" /\ resume.pc # "returned" /\ Faultable
  /\ purse' = [purse EXCEPT !.dir = "denied"]
  /\ resume' = FaultyRun
  /\ UNCHANGED <<job, logStart, outer>>

RetentionMoves ==
  \E p \in DOMAIN LogEnd :
    /\ resume.case.kind = "replay" /\ resume.pc # "returned"
    /\ logStart[p] < LogEnd[p] /\ Faultable
    /\ logStart' = [logStart EXCEPT ![p] = @ + 1]
    /\ resume' = FaultyRun
    /\ UNCHANGED <<purse, job, outer>>

EnteredSteps == CoordinatorReads \/ TransportAnswers \/ LaneRuns

ResumeSteps ==
  \/ StartEarly \/ StartScope \/ EnterReplay \/ BeforePartition \/ AskWatermarks \/ ReceiveRead
  \/ FetchPass \/ BeginReplicate \/ BatchesDone \/ DrainReplication
  \/ BeginCollect \/ DenyEntered \/ DrainCollect \/ UnwindResume \/ FailDeny \/ FailDrain \/ FinishResume

ResumeNext == ResumeSteps \/ EnteredSteps \/ ExpiryPasses \/ SiblingDenies \/ RetentionMoves

ResumeSpec == ResumeInit /\ [][ResumeNext]_resumeVars

-----------------------------------------------------------------------------
(* A call that has returned has no job left in another thread: whatever    *)
(* was entered has been waited for, and its result is in the outcomes.     *)
EnteredJobsDrained ==
  resume.pc = "returned" =>
    /\ job = NoJob
    /\ \A i \in DOMAIN resume.outcomes :
         LET o == resume.outcomes[i] IN
         o[1] = "started" /\ o[3] =>
           \E k \in DOMAIN resume.outcomes : k > i /\ resume.outcomes[k][1] = "completed"
                                            /\ resume.outcomes[k][2] = o[2]

(* No outcome is retained whose slot was not paid for: the vector sized by *)
(* max_steps never grows, not even while a failed call drains its jobs.    *)
OutcomesPrepaid == Len(resume.outcomes) <= purse.used["steps"]

(* A report of a replay means every batch of every partition's range, as   *)
(* its coordinator gave it, reached the transport, once and in offset      *)
(* order; a collection's means every lane has collected.                   *)
RangeBatches(range) == [i \in 1 .. range[3] - range[2] |-> <<range[1], range[2] + i - 1>>]

ReportMeansAll ==
  resume.result = "report" =>
    IF resume.case.kind = "collect"
    THEN Len(SelectSeq(resume.outcomes, LAMBDA o : o[3])) = resume.case.lanes
    ELSE resume.case.transport =>
           /\ [i \in DOMAIN resume.ranges |-> resume.ranges[i][1]] = resume.case.parts
           /\ resume.sent = FlattenSeq([i \in DOMAIN resume.ranges |-> RangeBatches(resume.ranges[i])])

(* The captured health is denied exactly once by a collection that fails,  *)
(* through whichever of the lane, the scope or the start refused first,    *)
(* and never by one that reports.                                          *)
HealthDeniedOnce ==
  resume.pc = "returned" /\ resume.case.kind = "collect" =>
    outer = IF resume.result = "report" THEN 0 ELSE 1

=============================================================================
