--------------------------------- MODULE Lane ---------------------------------
(***************************************************************************)
(* One storage lane: the shard's append worker over its ShardStore (packs  *)
(* of extent frames, one of them active), the sync worker that fsyncs for  *)
(* it, garbage collection of whole packs, faults, crashes, and the scan    *)
(* that opens the store again.                                             *)
(*                                                                         *)
(* Abstractions.                                                           *)
(*  - An append is a number, in the order of the shard's queue; its frame  *)
(*    has length 1, and PackFrames is target_pack_bytes.                   *)
(*  - Offsets grow with the append's number, and logStart is the number of *)
(*    the first append that retention keeps.                               *)
(*  - A failed write is undone by its set_len.  A failed fsync reports its *)
(*    error and leaves the unsynced frames as they were.                   *)
(*  - An fsync is one step: it covers what was written before it.          *)
(***************************************************************************)
EXTENDS Integers, FiniteSetsExt, SequencesExt

CONSTANTS
  PackFrames,    \* frames that fit in one pack
  MaxGroup,      \* MAX_APPEND_GROUP
  MaxSyncBatch,  \* MAX_SYNC_BATCH
  MaxAppends,    \* bound on appends
  MaxFaults,     \* bound on I/O errors
  MaxCrashes,    \* bound on crashes
  ProcessCrashes, PowerLosses  \* whether each kind of crash happens

ASSUME LaneAssumption ==
  /\ PackFrames \in Nat \ {0} /\ MaxGroup \in Nat \ {0} /\ MaxSyncBatch \in Nat \ {0}
  /\ MaxAppends \in Nat /\ MaxFaults \in Nat /\ MaxCrashes \in Nat
  /\ ProcessCrashes \in BOOLEAN /\ PowerLosses \in BOOLEAN

VARIABLES
  sent,       \* appends enqueued so far
  queue,      \* appends waiting in the shard's channel
  files,      \* pack files: [frames, synced, named], by pack sequence
  tombs,      \* pack files renamed to .gc-pending, in the same form; named once
              \* the rename is durable
  packPaths,  \* the packs the store knows
  active,     \* the active pack: [seq, bytes]
  worker,     \* the append worker: [phase, group, done], "gc..." while it collects
  syncQueue,  \* requests to the sync worker: [file, group]
  result,     \* what each append's caller was told
  unnamed,    \* history: the appends written to a pack without a durable name
  logStart, refused, faults, crashes

diskVars == <<files, tombs>>
storeVars == <<packPaths, active>>
laneVars == <<sent, queue, diskVars, storeVars, worker, syncQueue, result,
              unnamed, logStart, refused, faults, crashes>>

-----------------------------------------------------------------------------
Phases == {"idle", "append", "create", "name", "gcName", "gcRemove"}
Results == {"waiting", "ok", "ambiguous", "rejected", "lost"}
EmptyPack(named) == [frames |-> << >>, synced |-> 0, named |-> named]
Idle == [phase |-> "idle", group |-> << >>, done |-> 0]
Remaining == Len(worker.group) - worker.done

Answer(ids, answer) ==
  result' = [i \in DOMAIN result |-> IF i \in ids THEN answer ELSE result[i]]

\* sync_directory: every name in the lane's directory is durable.
SyncDirectory ==
  /\ files' = [s \in DOMAIN files |-> [files[s] EXCEPT !.named = TRUE]]
  /\ tombs' = [s \in DOMAIN tombs |-> [tombs[s] EXCEPT !.named = TRUE]]

\* An I/O error.
Fault ==
  /\ faults < MaxFaults
  /\ faults' = faults + 1

\* Mutant: only the appends that were not written yet are answered.
AppendGroupFailsUnwritten ==
  /\ worker' = Idle
  /\ Answer(ToSet(SubSeq(worker.group, worker.done + 1, Len(worker.group))), "ambiguous")

\* append_group answers every append of its group with the error.
AppendGroupFails ==
  /\ worker' = Idle
  /\ Answer(ToSet(worker.group), "ambiguous")

-----------------------------------------------------------------------------
(***************************************************************************)
(* The append worker.                                                      *)
(***************************************************************************)
\* begin_append: the caller's command enters the channel.
BeginAppend ==
  /\ ~refused /\ sent < MaxAppends
  /\ sent' = sent + 1
  /\ queue' = Append(queue, sent')
  /\ result' = Append(result, "waiting")
  /\ UNCHANGED <<diskVars, storeVars, worker, syncQueue, unnamed, logStart, refused, faults, crashes>>

\* Mutant: a rejected append stays in its group.
AdmittedAll(group, rejected) == group

\* Mutant: the last append takes the place of the first rejected one.
AdmittedSwapped(group, rejected) ==
  LET places == {j \in DOMAIN group : group[j] \in rejected}
  IN  IF places = {} THEN group
      ELSE SelectSeq(Front([group EXCEPT ![Min(places)] = Last(group)]),
                     LAMBDA i : i \notin rejected)

\* admit_physical, append by append.
Admitted(group, rejected) == SelectSeq(group, LAMBDA i : i \notin rejected)

\* run_worker takes a group of the appends that are queued; physical admission
\* may reject some of them.
TakeGroup(n, rejected) ==
  /\ ~refused /\ worker.phase = "idle" /\ n <= Len(queue)
  /\ queue' = SubSeq(queue, n + 1, Len(queue))
  /\ LET admitted == Admitted(SubSeq(queue, 1, n), rejected)
     IN  worker' = IF admitted = << >> THEN Idle
                   ELSE [phase |-> "append", group |-> admitted, done |-> 0]
  /\ Answer(rejected, "rejected")
  /\ UNCHANGED <<sent, diskVars, storeVars, syncQueue, unnamed, logStart, refused, faults, crashes>>

\* Mutant: the length grows by the segment's first frame only.
BytesAfterFirst(n) == active.bytes + 1

BytesAfter(n) == active.bytes + n

NeedsRotation == active.bytes > 0 /\ active.bytes + 1 > PackFrames

\* append_prepared_segment: as many frames as the active pack still takes.
WriteSegment ==
  LET n == Min({Remaining, Max({1, PackFrames - active.bytes})})
      segment == SubSeq(worker.group, worker.done + 1, worker.done + n)
  IN  /\ worker.phase = "append" /\ Remaining > 0 /\ ~NeedsRotation
      /\ files' = [files EXCEPT ![active.seq].frames = SubSeq(@, 1, active.bytes) \o segment]
      /\ active' = [active EXCEPT !.bytes = BytesAfter(n)]
      /\ worker' = [worker EXCEPT !.done = @ + n]
      /\ unnamed' = IF files[active.seq].named THEN unnamed ELSE unnamed \cup ToSet(segment)
      /\ UNCHANGED <<sent, queue, tombs, packPaths, syncQueue, result, logStart, refused,
                     faults, crashes>>

\* The write, or the clone of the active descriptor after it, fails.
WriteFails ==
  /\ worker.phase = "append"
  /\ Fault
  /\ AppendGroupFails
  /\ UNCHANGED <<sent, queue, diskVars, storeVars, syncQueue, unnamed, logStart, refused, crashes>>

\* The group is written: its fence goes to the sync worker.
EnqueueSync ==
  /\ worker.phase = "append" /\ Remaining = 0
  /\ syncQueue' = Append(syncQueue, [file |-> active.seq, group |-> worker.group])
  /\ worker' = Idle
  /\ UNCHANGED <<sent, queue, diskVars, storeVars, result, unnamed, logStart, refused, faults, crashes>>

\* rotate, called for a full pack or, when no command waits, for an aged one.
Rotates == \/ worker.phase = "append" /\ Remaining > 0 /\ NeedsRotation
           \/ worker.phase = "idle" /\ queue = << >> /\ active.bytes > 0

\* Mutant: rotation does not sync the pack it leaves.
RotateSyncSkipped == UNCHANGED files

RotateSync == files' = [files EXCEPT ![active.seq].synced = Len(files[active.seq].frames)]

\* It first syncs the active pack.
StartRotation ==
  /\ ~refused /\ Rotates
  /\ RotateSync
  /\ worker' = [worker EXCEPT !.phase = "create"]
  /\ UNCHANGED <<sent, queue, tombs, storeVars, syncQueue, result, unnamed, logStart, refused,
                 faults, crashes>>

StartRotationFails ==
  /\ ~refused /\ Rotates
  /\ Fault
  /\ AppendGroupFails
  /\ UNCHANGED <<sent, queue, diskVars, storeVars, syncQueue, unnamed, logStart, refused, crashes>>

\* create_new: the next pack's file must not exist yet.
CreatePack ==
  LET seq == active.seq + 1
  IN  /\ worker.phase = "create"
      /\ IF seq \in DOMAIN files
         THEN AppendGroupFails /\ UNCHANGED <<files, packPaths>>
         ELSE /\ files' = [s \in DOMAIN files \cup {seq} |->
                             IF s = seq THEN EmptyPack(FALSE) ELSE files[s]]
              /\ packPaths' = packPaths \cup {seq}
              /\ worker' = [worker EXCEPT !.phase = "name"]
              /\ UNCHANGED result
      /\ UNCHANGED <<sent, queue, tombs, active, syncQueue, unnamed, logStart, refused, faults, crashes>>

\* sync_directory, then the new pack is the active one.
SwitchPack ==
  LET seq == active.seq + 1
  IN  /\ worker.phase = "name"
      /\ SyncDirectory
      /\ active' = [seq |-> seq, bytes |-> 0]
      /\ worker' = IF worker.group = << >> THEN Idle ELSE [worker EXCEPT !.phase = "append"]
      /\ UNCHANGED <<sent, queue, packPaths, syncQueue, result, unnamed, logStart, refused,
                     faults, crashes>>

\* Creating the file or syncing the directory fails: rotate returns early.
RotationFails ==
  /\ worker.phase \in {"create", "name"}
  /\ Fault
  /\ AppendGroupFails
  /\ UNCHANGED <<sent, queue, diskVars, storeVars, syncQueue, unnamed, logStart, refused, crashes>>

-----------------------------------------------------------------------------
(***************************************************************************)
(* The sync worker: it takes a batch of requests, syncs the newest         *)
(* descriptor among them and answers them all.                             *)
(***************************************************************************)
Requested(n) == UNION {ToSet(syncQueue[i].group) : i \in 1..n}

\* Mutant: the oldest descriptor instead of the newest.
SyncedFileOldest(n) == syncQueue[1].file

SyncedFile(n) == syncQueue[n].file

SyncBatch(n) ==
  LET f == SyncedFile(n)
  IN  /\ ~refused /\ n <= Len(syncQueue)
      /\ syncQueue' = SubSeq(syncQueue, n + 1, Len(syncQueue))
      /\ files' = IF f \in DOMAIN files
                  THEN [files EXCEPT ![f].synced = Len(files[f].frames)] ELSE files
      /\ Answer(Requested(n), "ok")
      /\ UNCHANGED <<sent, queue, tombs, storeVars, worker, unnamed, logStart, refused, faults, crashes>>

SyncFails(n) ==
  /\ ~refused /\ n <= Len(syncQueue)
  /\ Fault
  /\ syncQueue' = SubSeq(syncQueue, n + 1, Len(syncQueue))
  /\ Answer(Requested(n), "ambiguous")
  /\ UNCHANGED <<sent, queue, diskVars, storeVars, worker, unnamed, logStart, refused, crashes>>

-----------------------------------------------------------------------------
(***************************************************************************)
(* Retention and garbage collection of whole sealed packs, pack by pack.   *)
(***************************************************************************)
AdvanceLogStart ==
  /\ ~refused /\ logStart <= sent /\ result[logStart] # "waiting"
  /\ logStart' = logStart + 1
  /\ UNCHANGED <<sent, queue, diskVars, storeVars, worker, syncQueue, result, unnamed, refused,
                 faults, crashes>>

\* A pack the index knows, whether or not its file was already renamed.
Pack(s) == IF s \in DOMAIN files THEN files[s] ELSE tombs[s]

Removable(s) ==
  /\ s < active.seq
  /\ Pack(s).frames # << >>
  /\ \A i \in ToSet(Pack(s).frames) : i < logStart

\* The first removable pack; if an earlier collection has renamed its file and
\* failed, reading its length fails and the collection ends there.
GcCandidate == Min({s \in packPaths : Removable(s)})

GcRename ==
  /\ ~refused /\ worker.phase = "idle"
  /\ \E s \in packPaths : Removable(s)
  /\ GcCandidate \in DOMAIN files
  /\ files' = [s \in DOMAIN files \ {GcCandidate} |-> files[s]]
  /\ tombs' = [s \in DOMAIN tombs \cup {GcCandidate} |->
                 IF s = GcCandidate THEN [files[s] EXCEPT !.named = FALSE] ELSE tombs[s]]
  /\ worker' = [worker EXCEPT !.phase = "gcName", !.done = GcCandidate]
  /\ UNCHANGED <<sent, queue, storeVars, syncQueue, result, unnamed, logStart, refused, faults, crashes>>

GcForget ==
  /\ worker.phase = "gcName"
  /\ SyncDirectory
  /\ packPaths' = packPaths \ {worker.done}
  /\ worker' = [worker EXCEPT !.phase = "gcRemove"]
  /\ UNCHANGED <<sent, queue, active, syncQueue, result, unnamed, logStart, refused, faults, crashes>>

GcRemove ==
  /\ worker.phase = "gcRemove"
  /\ tombs' = [s \in DOMAIN tombs \ {worker.done} |-> tombs[s]]
  /\ worker' = Idle
  /\ UNCHANGED <<sent, queue, files, storeVars, syncQueue, result, unnamed, logStart, refused,
                 faults, crashes>>

GcFails ==
  /\ worker.phase \in {"gcName", "gcRemove"}
  /\ Fault
  /\ worker' = Idle
  /\ UNCHANGED <<sent, queue, diskVars, storeVars, syncQueue, result, unnamed, logStart, refused, crashes>>

-----------------------------------------------------------------------------
(***************************************************************************)
(* Crashes and the scan that follows.  A torn file ends in part of a frame:*)
(* the scan cuts it off the last pack and refuses it in any other.         *)
(***************************************************************************)
\* The pack whose tail may be repaired and that becomes the active one.
LastPack(disk) == Max(DOMAIN disk)

\* The packs discover_packs finds; a directory without any gets pack 0.
Discovered(disk) == IF DOMAIN disk = {} THEN 0 :> EmptyPack(TRUE) ELSE disk

\* scan_pack fails on a torn frame unless its pack permits tail repair.
ScanRefuses(torn, last) == ~(torn \subseteq {last})

\* scan_pack syncs a file whose torn tail it cuts off.
Scanned(disk, torn) ==
  [s \in DOMAIN disk |-> IF s \in torn THEN [disk[s] EXCEPT !.synced = Len(disk[s].frames)]
                         ELSE disk[s]]

OpenStore(found, torn) ==
  LET disk == Discovered(found)
      last == LastPack(disk)
  IN  /\ crashes < MaxCrashes
      /\ crashes' = crashes + 1
      /\ refused' = ScanRefuses(torn, last)
      /\ files' = Scanned(disk, torn)
      /\ tombs' = << >>
      /\ packPaths' = DOMAIN disk
      /\ active' = [seq |-> last, bytes |-> Len(disk[last].frames)]
      /\ worker' = Idle /\ queue' = << >> /\ syncQueue' = << >>
      /\ Answer({i \in DOMAIN result : result[i] = "waiting"}, "lost")
      /\ UNCHANGED <<sent, unnamed, logStart, faults>>

\* The process dies, perhaps within a write to the active pack.
ProcessCrash(torn) ==
  /\ ~refused /\ ProcessCrashes
  /\ torn \subseteq (IF worker.phase = "append" /\ Remaining > 0 /\ ~NeedsRotation
                     THEN {active.seq} ELSE {})
  /\ OpenStore(files, torn)

\* A pack after a power loss that kept n of its frames.
Cut(pack, n) == [frames |-> SubSeq(pack.frames, 1, n), synced |-> n, named |-> TRUE]

\* Power fails: frames past the last sync may go, the first of them in part;
\* a new pack or a rename that no directory sync covers may go too.
PowerLoss(gone, back, kept, torn) ==
  LET disk == [s \in (DOMAIN files \ gone) \cup back |-> Cut(Pack(s), kept[s])]
  IN  /\ ~refused /\ PowerLosses
      /\ \A s \in gone : ~files[s].named
      /\ \A s \in back : ~tombs[s].named
      /\ \A s \in DOMAIN files \cup DOMAIN tombs : kept[s] \in Pack(s).synced..Len(Pack(s).frames)
      /\ \A s \in torn : s \in DOMAIN disk /\ kept[s] < Len(Pack(s).frames)
      /\ OpenStore(disk, torn)

-----------------------------------------------------------------------------
LaneInit ==
  /\ sent = 0 /\ queue = << >> /\ result = << >>
  /\ files = (0 :> EmptyPack(TRUE)) /\ tombs = << >>
  /\ packPaths = {0} /\ active = [seq |-> 0, bytes |-> 0]
  /\ worker = Idle /\ syncQueue = << >>
  /\ unnamed = {} /\ logStart = 1 /\ refused = FALSE /\ faults = 0 /\ crashes = 0

TakeSome == \E n \in 1..MaxGroup : n <= Len(queue) /\
               \E rejected \in SUBSET ToSet(SubSeq(queue, 1, n)) : TakeGroup(n, rejected)
SyncSome == \E n \in 1..MaxSyncBatch : SyncBatch(n)
SyncSomeFails == \E n \in 1..MaxSyncBatch : SyncFails(n)
SomeProcessCrash == \E torn \in SUBSET {active.seq} : ProcessCrash(torn)
SomePowerLoss ==
  LET packs == DOMAIN files \cup DOMAIN tombs
      unsynced == {s \in packs : Pack(s).synced < Len(Pack(s).frames)}
  IN  /\ ~refused
      /\ \E gone \in SUBSET {s \in DOMAIN files : ~files[s].named},
            back \in SUBSET {s \in DOMAIN tombs : ~tombs[s].named},
            left \in [unsynced -> 0..MaxAppends],
            torn \in SUBSET unsynced :
           PowerLoss(gone, back, left @@ [s \in packs |-> Pack(s).synced], torn)

WorkerStep == \/ TakeSome
              \/ WriteSegment
              \/ EnqueueSync
              \/ StartRotation
              \/ CreatePack
              \/ SwitchPack
              \/ GcRename
              \/ GcForget
              \/ GcRemove

LaneNext == \/ BeginAppend
            \/ WorkerStep
            \/ SyncSome
            \/ AdvanceLogStart
            \/ WriteFails
            \/ StartRotationFails
            \/ RotationFails
            \/ SyncSomeFails
            \/ GcFails
            \/ SomeProcessCrash
            \/ SomePowerLoss

LaneSpec == LaneInit /\ [][LaneNext]_laneVars

\* The two threads keep running.
LaneFairSpec == LaneSpec /\ WF_laneVars(WorkerStep) /\ WF_laneVars(SyncSome)

-----------------------------------------------------------------------------
\* The lane is well formed, and the store's cached length of its active pack
\* (ActivePack) is the length of that file through partial groups, failed
\* rotations and reopenings.
LaneTypeOK ==
  /\ sent \in 0..MaxAppends /\ DOMAIN result = 1..sent
  /\ \A i \in 1..sent : result[i] \in Results
  /\ worker.phase \in Phases /\ Range(queue) \subseteq 1..sent
  /\ \A s \in DOMAIN files :
       /\ Range(files[s].frames) \subseteq 1..sent
       /\ files[s].synced \in 0..Len(files[s].frames) /\ files[s].named \in BOOLEAN
  /\ packPaths \subseteq 0..MaxAppends /\ active.seq \in packPaths
  /\ active.seq \in DOMAIN files
  /\ ~refused => active.bytes = Len(files[active.seq].frames)
  /\ unnamed \subseteq 1..sent
  /\ logStart \in 1..MaxAppends + 1 /\ refused \in BOOLEAN
  /\ faults \in 0..MaxFaults /\ crashes \in 0..MaxCrashes

\* In the synced part of a pack whose name a directory sync covers.
DurableOnDisk(i) ==
  \E s \in DOMAIN files : /\ files[s].named
                          /\ i \in ToSet(SubSeq(files[s].frames, 1, files[s].synced))

\* An append whose caller was told that it is durable stays in the synced part
\* of a pack with a durable name until retention passes it: one fsync of the
\* newest descriptor answers for every request of the sync worker's batch,
\* whatever packs those requests wrote to.  The exception is an append to a pack
\* that open_inner adopted after a process crash within rotate.
AckedOnDisk ==
  \A i \in (logStart..sent) \ unnamed : result[i] = "ok" => DurableOnDisk(i)

\* README: "restart-durable extent-pack storage".  An append whose caller was told
\* that it is durable is in some pack, whatever crashes, process or power, followed.
AckedKept ==
  \A i \in logStart..sent :
    result[i] = "ok" => \E s \in DOMAIN files : i \in ToSet(files[s].frames)

\* An append the worker refused before writing (AppendFailure::rejected, from
\* which the coordinator aborts the batch for good) is in no pack.
RejectedNotWritten ==
  \A s \in DOMAIN files : \A i \in ToSet(files[s].frames) : result[i] # "rejected"

\* The packs, read in sequence order as the scan reads them, hold each append
\* once and in the order the worker took them, through partial groups, failed
\* rotations and crashes.
PacksInOrder ==
  \A s, t \in DOMAIN files :
    \A m \in DOMAIN files[s].frames, n \in DOMAIN files[t].frames :
      s < t \/ (s = t /\ m < n) => files[s].frames[m] < files[t].frames[n]

\* Crashes alone never keep the store from opening, wherever they cut appending,
\* rotation and collection: a torn frame below the last pack, which scan_pack
\* refuses, takes a rotation that failed after it created its pack.
RefusalTakesFault == refused => faults > 0

\* What the append worker, rotation, collection and the sync worker told their
\* callers is true of the packs, in whatever order they ran and wherever an I/O
\* error or a crash cut them (ActivePack, append_group, rotate, run_sync_worker).
LaneSafe == LaneTypeOK /\ AckedOnDisk /\ RejectedNotWritten /\ PacksInOrder /\ RefusalTakesFault

\* Every append that entered the shard's queue is answered.
AppendsAnswered ==
  \A i \in 1..MaxAppends :
    []<>(i <= sent => result[i] # "waiting")
=============================================================================
