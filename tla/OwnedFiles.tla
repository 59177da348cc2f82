----------------------------- MODULE OwnedFiles -----------------------------
(***************************************************************************)
(* Files of an owned directory (crates/shard-stream-core/src:              *)
(* owned_directory_handle.rs, owned_directory_until.rs,                    *)
(* owned_directory_validation_checked.rs, owned_file_replacement.rs and    *)
(* the shared native_directory_budget.rs).                                 *)
(*                                                                         *)
(* Jobs work in one retained directory under one budget of native calls:   *)
(* they replace a file through a temporary, publish a written file under a *)
(* new name, open or create children, probe a name, sync the directory, or *)
(* validate it for a fetch under a second budget.  Any call may be late,   *)
(* fail or unwind; the directory may lose its name meanwhile.              *)
(*                                                                         *)
(* `kept[n]' is what name n may lead to after a power loss: everything it  *)
(* led to since the directory was last synced.                             *)
(***************************************************************************)
EXTENDS Naturals, Sequences, FiniteSets

CONSTANTS
  FileJobs,       \* the jobs
  JobKinds,       \* what a job may be: a subset of the kinds below
  BodyBytes,      \* bytes of a file's body
  MaxWriteCalls, MaxWriteBytes,   \* NativeFileReplacementLimits
  MaxCalls,       \* max_calls of the directory budget
  MaxFileFaults,  \* bound: calls that fail, unwind or come late
  NoFile

ASSUME FilesAssumption ==
  /\ {BodyBytes, MaxWriteCalls, MaxWriteBytes, MaxCalls} \subseteq Nat \ {0}
  /\ MaxFileFaults \in Nat
  /\ JobKinds \subseteq {"replace", "publish", "mkdir", "open", "optional", "create", "read",
                         "probe", "sync", "checked"}

VARIABLES
  leads,          \* name -> inode
  kept,           \* name -> the inodes it may lead to after a power loss
  files,          \* inode -> [data, safe]: bytes written, bytes synced
  budget,         \* NativeDirectoryBudget: [calls, denied, late]
  fetch,          \* the second budget and the composing owner: [denied, told]
  jobs,           \* job -> its progress
  inPlace,        \* the directory still has its name
  fileFaults

fileVars == <<leads, kept, files, budget, fetch, jobs, inPlace, fileFaults>>

\* A job names its temporary, and the file it makes, after itself.
Names == {"dest", "pack", "child", "log"} \cup FileJobs
Tmp(j) == j

\* A publisher has its source open, and written but not synced.
FilesInit ==
  /\ jobs \in [FileJobs -> {[kind |-> k, pc |-> "enter", file |-> NoFile, written |-> 0,
                             writes |-> 0, renaming |-> FALSE, renamed |-> FALSE,
                             synced |-> "no", end |-> "none"] : k \in JobKinds}]
  /\ LET sources == {j \in FileJobs : jobs[j].kind = "publish"} IN
       /\ files = [f \in {0} \cup sources |->
                     IF f = 0 THEN [data |-> BodyBytes, safe |-> BodyBytes]
                     ELSE [data |-> BodyBytes, safe |-> 0]]
       /\ leads = [n \in Names |-> IF n = "dest" THEN 0
                                   ELSE IF n \in sources THEN n
                                   ELSE NoFile]
  /\ kept = [n \in Names |-> {leads[n]}]
  /\ budget = [calls |-> 0, denied |-> FALSE, late |-> FALSE]
  /\ fetch = [denied |-> FALSE, told |-> 0]
  /\ inPlace = TRUE /\ fileFaults = 0

-----------------------------------------------------------------------------
(* The budget: `charge', `completed', `finish' and `deny'.                 *)

\* What a phase that pays for n calls meets.
Charge(n) ==
  IF budget.late THEN "Expired"
  ELSE IF budget.denied THEN "Denied"
  ELSE IF budget.calls + n > MaxCalls THEN "Capacity"
  ELSE "ok"
Pay(n) == budget' = [budget EXCEPT !.calls = @ + n]
Deny == budget' = [budget EXCEPT !.denied = TRUE]

Kind(j, kinds) == jobs[j].kind \in kinds
JobAt(j, pc) == jobs[j].pc = pc
Ended(j, end) == [jobs[j] EXCEPT !.pc = "end", !.end = end]
FileFault == fileFaults < MaxFileFaults /\ fileFaults' = fileFaults + 1
NoFault == UNCHANGED fileFaults
SameNames == UNCHANGED <<leads, kept, files, inPlace>>

\* Mutant: a refusal is its job's own.
RefuseJobAlone(j) ==
  /\ jobs' = [jobs EXCEPT ![j] = Ended(j, "refused")]
  /\ UNCHANGED <<budget, fetch>>

\* A checked validation that is refused denies its second budget too and tells
\* the composing owner, once.
DenyFetch(j) ==
  fetch' = IF Kind(j, {"checked"}) THEN [denied |-> TRUE, told |-> fetch.told + 1] ELSE fetch

\* Any refusal of a job denies the budget for all of them.
RefuseJob(j) ==
  /\ Deny
  /\ jobs' = [jobs EXCEPT ![j] = Ended(j, "refused")]
  /\ DenyFetch(j)

PhaseFee(j) ==
  CASE JobAt(j, "rename") -> 2       \* with the sync of the directory
    [] JobAt(j, "flush") -> 2
    [] OTHER -> 1
Budgeted == {"replace", "mkdir", "open", "optional", "create", "read", "probe", "sync",
             "checked"}
Phases == {"enter", "open", "write", "flush", "check", "rename", "recheck", "act", "after"}

\* A phase the budget does not admit refuses the job before any call.
RefuseCharge(j) ==
  /\ Kind(j, Budgeted) /\ jobs[j].pc \in Phases
  /\ Charge(PhaseFee(j)) # "ok" \/ (Kind(j, {"checked"}) /\ fetch.denied)
  /\ RefuseJob(j)
  /\ NoFault /\ SameNames

Admitted(j, pc) ==
  /\ JobAt(j, pc) /\ Kind(j, Budgeted) /\ Charge(PhaseFee(j)) = "ok"
  /\ Kind(j, {"checked"}) => ~fetch.denied

\* The call of a phase fails; its result is kept and the job refused.
FailCall(j) ==
  /\ jobs[j].pc \in Phases /\ Admitted(j, jobs[j].pc)
  /\ FileFault
  /\ budget' = [budget EXCEPT !.calls = @ + PhaseFee(j), !.denied = TRUE]
  /\ jobs' = [jobs EXCEPT ![j] = [Ended(j, "refused") EXCEPT !.renaming = JobAt(j, "rename")]]
  /\ DenyFetch(j)
  /\ SameNames

Step(j, next) ==
  /\ Pay(PhaseFee(j))
  /\ jobs' = [jobs EXCEPT ![j] = next]
  /\ NoFault /\ UNCHANGED fetch

\* Validation of the directory's chain of names, and of the entry's identity.
ValidateOrRefuse(j, next) ==
  /\ SameNames
  /\ IF inPlace THEN Step(j, next)
     ELSE NoFault /\ RefuseJob(j)

-----------------------------------------------------------------------------
(* Names and syncs.                                                        *)

SetName(n, f) ==
  /\ leads' = [leads EXCEPT ![n] = f]
  /\ kept' = [kept EXCEPT ![n] = @ \cup {f}]
\* fsync of the directory.
Settled == [n \in Names |-> {leads[n]}]
WithFile(f, data, safe) ==
  [x \in DOMAIN files \cup {f} |-> IF x = f THEN [data |-> data, safe |-> safe] ELSE files[x]]

-----------------------------------------------------------------------------
(* replace_file_until                                                      *)

EnterReplace(j) ==
  /\ Kind(j, {"replace"}) /\ Admitted(j, "enter")
  /\ Step(j, [jobs[j] EXCEPT !.pc = "open"])
  /\ SameNames

\* The temporary is created, never reused, and never removed again.
OpenTemporary(j) ==
  /\ Kind(j, {"replace"}) /\ Admitted(j, "open")
  /\ IF ~inPlace
     THEN NoFault /\ RefuseJob(j) /\ SameNames
     ELSE /\ SetName(Tmp(j), j)
          /\ files' = WithFile(j, 0, 0)
          /\ Step(j, [jobs[j] EXCEPT !.pc = "write", !.file = j])
          /\ UNCHANGED inPlace

\* A write takes part of the rest, or is interrupted; none at all is a refusal.
WriteBody(j) ==
  /\ Kind(j, {"replace"}) /\ Admitted(j, "write") /\ jobs[j].written < BodyBytes
  /\ LET t == jobs[j]
         most == IF BodyBytes - t.written < MaxWriteBytes THEN BodyBytes - t.written
                 ELSE MaxWriteBytes
     IN IF t.writes >= MaxWriteCalls
        THEN NoFault /\ RefuseJob(j) /\ SameNames
        ELSE \E n \in 0..most, interrupted \in BOOLEAN :
               /\ interrupted => n = 0
               /\ IF n = 0 THEN FileFault ELSE NoFault
               /\ Pay(1)
               /\ files' = WithFile(j, files[j].data + n, files[j].safe)
               /\ jobs' = [jobs EXCEPT ![j] =
                             [t EXCEPT !.written = @ + n, !.writes = @ + 1,
                                       !.pc = IF n = 0 /\ ~interrupted THEN "zero" ELSE @]]
               /\ UNCHANGED <<leads, kept, inPlace, fetch>>

RefuseZero(j) ==
  /\ JobAt(j, "zero") /\ RefuseJob(j)
  /\ NoFault /\ SameNames

WholeBody(j) ==
  /\ Kind(j, {"replace"}) /\ JobAt(j, "write") /\ jobs[j].written = BodyBytes
  /\ jobs' = [jobs EXCEPT ![j].pc = "flush"]
  /\ UNCHANGED <<budget, fetch>> /\ NoFault /\ SameNames

\* Mutant: the body is left to the page cache.
SyncDataNever(j) ==
  /\ Kind(j, {"replace"}) /\ Admitted(j, "flush")
  /\ Step(j, [jobs[j] EXCEPT !.pc = "check"])
  /\ SameNames

SyncData(j) ==
  /\ Kind(j, {"replace"}) /\ Admitted(j, "flush")
  /\ files' = WithFile(j, files[j].data, files[j].data)
  /\ Step(j, [jobs[j] EXCEPT !.pc = "check"])
  /\ UNCHANGED <<leads, kept, inPlace>>

ValidateTemporary(j) ==
  /\ Kind(j, {"replace"}) /\ Admitted(j, "check")
  /\ ValidateOrRefuse(j, [jobs[j] EXCEPT !.pc = "rename"])

\* The rename is paid for together with the sync of the directory that must follow.
RenameFile(j) ==
  /\ Kind(j, {"replace"}) /\ Admitted(j, "rename")
  /\ leads' = [leads EXCEPT !["dest"] = j, ![Tmp(j)] = NoFile]
  /\ kept' = [kept EXCEPT !["dest"] = @ \cup {j}, ![Tmp(j)] = @ \cup {NoFile}]
  /\ Step(j, [jobs[j] EXCEPT !.pc = "settle", !.renaming = TRUE, !.renamed = TRUE])
  /\ UNCHANGED <<files, inPlace>>

\* `sync_parent': no clock and no admission comes between.
SyncParent(j) ==
  /\ JobAt(j, "settle")
  /\ \/ /\ kept' = Settled /\ NoFault
        /\ jobs' = [jobs EXCEPT ![j].pc = "recheck", ![j].synced = "yes"]
        /\ UNCHANGED <<leads, files, inPlace, budget, fetch>>
     \/ /\ FileFault
        /\ Deny
        /\ jobs' = [jobs EXCEPT ![j] = [Ended(j, "refused") EXCEPT !.synced = "failed"]]
        /\ SameNames /\ UNCHANGED fetch

FinishReplace(j) ==
  /\ Kind(j, {"replace"}) /\ Admitted(j, "recheck")
  /\ ValidateOrRefuse(j, Ended(j, "done"))

\* Mutant: an unwind leaves the rename as it is.
UnwindUnsettled(j) ==
  /\ Kind(j, {"replace"})
  /\ jobs[j].pc \in {"open", "write", "flush", "check", "rename", "settle", "recheck"}
  /\ FileFault /\ Deny
  /\ jobs' = [jobs EXCEPT ![j] = Ended(j, "refused")]
  /\ SameNames /\ UNCHANGED fetch

\* `retain_unwind': deny first, then settle a rename that may have happened.
\* Unwinding out of the rename leaves it open whether the name changed.
Unwind(j) ==
  /\ Kind(j, {"replace"})
  /\ jobs[j].pc \in {"open", "write", "flush", "check", "rename", "settle", "recheck"}
  /\ FileFault /\ Deny
  /\ \E happened \in (IF Admitted(j, "rename") THEN BOOLEAN ELSE {FALSE}) :
       LET renaming == jobs[j].renaming \/ Admitted(j, "rename")
           settle == renaming /\ jobs[j].synced = "no"
           now == IF happened THEN [leads EXCEPT !["dest"] = j, ![Tmp(j)] = NoFile] ELSE leads
       IN /\ leads' = now
          /\ kept' = IF settle THEN [n \in Names |-> {now[n]}] ELSE kept
          /\ jobs' = [jobs EXCEPT ![j] =
                        [Ended(j, "refused") EXCEPT
                           !.renaming = renaming, !.renamed = @ \/ happened,
                           !.synced = IF settle THEN "yes" ELSE @]]
  /\ UNCHANGED <<files, inPlace, fetch>>

-----------------------------------------------------------------------------
(* publish_new_file and publish_new_file_until: the deadline, no budget.   *)

PublishPcs == {"enter", "link", "linked", "both", "unlinked", "last"}
RefusePublish(j) ==
  /\ jobs' = [jobs EXCEPT ![j] = Ended(j, "refused")]
  /\ UNCHANGED <<budget, fetch>> /\ NoFault /\ SameNames

\* Late or no longer validated: what was linked or removed stays so.
StopPublish(j) ==
  /\ Kind(j, {"publish"}) /\ jobs[j].pc \in PublishPcs
  /\ budget.late \/ (jobs[j].pc \in {"enter", "linked", "both", "last"} /\ ~inPlace)
       \/ (JobAt(j, "link") /\ leads["pack"] # NoFile)
  /\ RefusePublish(j)

Publishing(j, pc, next) ==
  /\ Kind(j, {"publish"}) /\ JobAt(j, pc) /\ ~budget.late
  /\ jobs' = [jobs EXCEPT ![j] = next]
  /\ UNCHANGED <<budget, fetch>> /\ NoFault

SyncSource(j) ==
  /\ Publishing(j, "enter", [jobs[j] EXCEPT !.pc = "link"]) /\ inPlace
  /\ files' = WithFile(j, files[j].data, files[j].data)
  /\ UNCHANGED <<leads, kept, inPlace>>

\* linkat refuses a name that is taken.
LinkFinal(j) ==
  /\ Publishing(j, "link", [jobs[j] EXCEPT !.pc = "linked"])
  /\ leads["pack"] = NoFile
  /\ SetName("pack", j)
  /\ UNCHANGED <<files, inPlace>>

SyncFinal(j) ==
  /\ Publishing(j, "linked", [jobs[j] EXCEPT !.pc = "both"]) /\ inPlace
  /\ kept' = Settled
  /\ UNCHANGED <<leads, files, inPlace>>

UnlinkSource(j) ==
  /\ Publishing(j, "both", [jobs[j] EXCEPT !.pc = "unlinked"]) /\ inPlace
  /\ SetName(Tmp(j), NoFile)
  /\ UNCHANGED <<files, inPlace>>

SyncUnlinked(j) ==
  /\ Publishing(j, "unlinked", [jobs[j] EXCEPT !.pc = "last"])
  /\ kept' = Settled
  /\ UNCHANGED <<leads, files, inPlace>>

FinishPublish(j) ==
  /\ Publishing(j, "last", Ended(j, "done")) /\ inPlace
  /\ SameNames

-----------------------------------------------------------------------------
(* Children, probes, syncs and validations: validate, act, validate.       *)

EnterHandle(j) ==
  /\ Kind(j, Budgeted \ {"replace", "checked"}) /\ Admitted(j, "enter")
  /\ ValidateOrRefuse(j, [jobs[j] EXCEPT !.pc = "act"])

\* What a job that names an entry does when it is there and when it is not.
Acted(j, n, created, refused) ==
  IF refused
  THEN NoFault /\ RefuseJob(j) /\ SameNames
  ELSE /\ IF created THEN SetName(n, "made") ELSE UNCHANGED <<leads, kept>>
       /\ Step(j, [jobs[j] EXCEPT !.pc = "after"])
       /\ UNCHANGED <<files, inPlace>>

\* A missing directory is made, refused, or - where that was asked - an answer.
OpenChildDirectory(j) ==
  /\ Kind(j, {"mkdir", "open", "optional"}) /\ Admitted(j, "act")
  /\ LET absent == leads["child"] = NoFile IN
       Acted(j, "child", absent /\ Kind(j, {"mkdir"}), absent /\ Kind(j, {"open"}))

\* A file is opened where it is missing only in a mode that creates it, and
\* an absent one read is an answer.
OpenChildFile(j) ==
  /\ Kind(j, {"create", "read"}) /\ Admitted(j, "act")
  /\ Acted(j, "log", leads["log"] = NoFile /\ Kind(j, {"create"}), FALSE)

ProbeEntry(j) ==
  /\ Kind(j, {"probe"}) /\ Admitted(j, "act")
  /\ Acted(j, "child", FALSE, FALSE)

SyncDirectory(j) ==
  /\ Kind(j, {"sync"}) /\ Admitted(j, "act")
  /\ kept' = Settled
  /\ Step(j, [jobs[j] EXCEPT !.pc = "after"])
  /\ UNCHANGED <<leads, files, inPlace>>

\* The validation for a fetch enters under both budgets and walks the chain itself.
EnterChecked(j) ==
  /\ Kind(j, {"checked"}) /\ Admitted(j, "enter")
  /\ Step(j, [jobs[j] EXCEPT !.pc = "act"])
  /\ SameNames

CheckedValidation(j) ==
  /\ Kind(j, {"checked"}) /\ Admitted(j, "act")
  /\ ValidateOrRefuse(j, [jobs[j] EXCEPT !.pc = "after"])

FinishHandle(j) ==
  /\ Kind(j, Budgeted \ {"replace"}) /\ Admitted(j, "after")
  /\ IF Kind(j, {"checked"}) THEN Step(j, Ended(j, "done")) /\ SameNames
     ELSE ValidateOrRefuse(j, Ended(j, "done"))

-----------------------------------------------------------------------------
\* The deadline, which `cap_expiry' may only bring nearer, passes.
Expire ==
  /\ ~budget.late /\ FileFault
  /\ budget' = [budget EXCEPT !.late = TRUE]
  /\ UNCHANGED <<fetch, jobs>> /\ SameNames

\* The directory, or one above it, is moved from its name.
LoseName ==
  /\ inPlace /\ FileFault /\ inPlace' = FALSE
  /\ UNCHANGED <<leads, kept, files, budget, fetch, jobs>>

Replace(j) ==
  \/ EnterReplace(j) \/ OpenTemporary(j) \/ WriteBody(j) \/ RefuseZero(j) \/ WholeBody(j)
  \/ SyncData(j) \/ ValidateTemporary(j) \/ RenameFile(j) \/ SyncParent(j) \/ FinishReplace(j)
  \/ Unwind(j)
Publish(j) ==
  \/ StopPublish(j) \/ SyncSource(j) \/ LinkFinal(j) \/ SyncFinal(j) \/ UnlinkSource(j)
  \/ SyncUnlinked(j) \/ FinishPublish(j)
Handle(j) ==
  \/ EnterHandle(j) \/ OpenChildDirectory(j) \/ OpenChildFile(j) \/ ProbeEntry(j)
  \/ SyncDirectory(j) \/ EnterChecked(j) \/ CheckedValidation(j)
  \/ FinishHandle(j)

FilesNext ==
  \/ \E j \in FileJobs : Replace(j) \/ Publish(j) \/ Handle(j) \/ RefuseCharge(j) \/ FailCall(j)
  \/ Expire \/ LoseName

FilesSpec == FilesInit /\ [][FilesNext]_fileVars

-----------------------------------------------------------------------------
(* Properties.                                                             *)

\* Whatever fails, unwinds or comes late, and whenever the power goes: the name
\* a replacement writes and the name a publication makes never lead to a file
\* whose body is not wholly on disk.
NamesLeadToWholeFiles ==
  \A n \in {"dest", "pack"} : \A f \in kept[n] :
    f # NoFile => files[f].safe = BodyBytes

\* A job that returned after its rename took effect, or may have, has synced the
\* directory or knows that the sync failed; a finished publication is durable.
NamespaceSettled ==
  \A j \in FileJobs : jobs[j].pc = "end" =>
    /\ jobs[j].renamed => jobs[j].synced # "no"
    /\ jobs[j].kind = "publish" /\ jobs[j].end = "done" => kept["pack"] = {j}

\* The first refusal under the budget is the last: no job starts another paid
\* call afterwards, and the budget is never overdrawn.
RefusalStops ==
  [][(\E j \in FileJobs : jobs[j].kind \in Budgeted /\ jobs[j].end = "refused") =>
        budget'.calls = budget.calls]_fileVars

\* What the replacement and the publication of a file promise together, and the
\* directory budget with them.
FilesSafe == [](NamesLeadToWholeFiles /\ NamespaceSettled) /\ RefusalStops

=============================================================================
