------------------------------ MODULE PinnedLog ------------------------------
(***************************************************************************)
(* The pinned shard log: one shard directory held open by descriptor, the  *)
(* store rebuilt from it, and the consuming operations that append, seal   *)
(* and compact it (pinned_store_open.rs, pinned_append.rs,                 *)
(* pinned_append_io.rs, pinned_store_write.rs, pinned_gc.rs,               *)
(* pinned_store_gc.rs and the canonical bridge api_pinned*.rs).            *)
(*                                                                         *)
(* One operation owns the log at a time.  Any check, fee or native call of *)
(* it may refuse; a refusal denies the operation, settles the native calls *)
(* whose slots were prepaid and drops the log, which is then opened anew.  *)
(* A crash may come between any two steps.  A record is one frame; a file  *)
(* or directory carries the images a crash may leave of it, which fdatasync*)
(* and fsync reduce to the current one.  Names of a directory reach the    *)
(* disk in the order of the calls.                                         *)
(***************************************************************************)
EXTENDS Integers, Sequences, FiniteSets, FiniteSetsExt, SequencesExt, TLC

CONSTANTS TargetPack,       \* frames a pack takes before it is rotated
          GroupSizes,       \* sizes of the groups a caller appends
          MaxRecord,        \* bound: the largest record sequence
          MaxCompactions,   \* bound: compactions started
          MaxPinnedFaults,  \* bound: refused checks and inputs, and failed calls
          MaxPinnedCrashes  \* bound: crashes

VARIABLES pinNames,   \* the directory: [now, images]
          pinFiles,   \* pack -> [now, images] of its contents
          pinStore,   \* the opened log and its registry of descriptors
          pinTask,    \* the operation that owns the log
          pinLedger   \* history: what was promised, and the bounds used

pinVars == <<pinNames, pinFiles, pinStore, pinTask, pinLedger>>

(* Contents of a pack: whole frames, then perhaps part of one. *)
Holds(frames, torn) == [frames |-> frames, torn |-> torn]
NoRoll == -1
NoPending == [pack |-> -1, roll |-> NoRoll, flush |-> TRUE, sync |-> TRUE]
Pending(pack, roll) ==
    [pack |-> pack, roll |-> roll, flush |-> FALSE, sync |-> FALSE]

IdleTask == [kind |-> "none", at |-> "idle", todo |-> <<>>, sync |-> FALSE,
             floor |-> 0, pend |-> NoPending, dirPend |-> "none",
             reserved |-> 0, entered |-> 0, rotated |-> <<>>,
             targets |-> <<>>, next |-> 1, installed |-> FALSE,
             lost |-> FALSE, why |-> "none"]

Unopened == [open |-> FALSE, active |-> 0, bytes |-> 0, index |-> <<>>,
             paths |-> {}, epoch |-> 0,
             tracked |-> [epoch |-> 0, active |-> 0, bytes |-> 0],
             originals |-> {}, scanned |-> <<>>, retired |-> <<>>]

PinnedInit ==
    /\ pinNames = [now |-> <<>>, images |-> {<<>>}]
    /\ pinFiles = <<>>
    /\ pinStore = Unopened
    /\ pinTask = IdleTask
    /\ pinLedger = [acked |-> {}, floor |-> 0, next |-> 0, gapped |-> FALSE,
                    unsynced |-> FALSE, compactions |-> 0, faults |-> 0, crashes |-> 0]

-----------------------------------------------------------------------------
(* Directory and files. *)

LivePacks == {p \in DOMAIN pinNames.now : pinNames.now[p] = "live"}
PendingPacks == DOMAIN pinNames.now \ LivePacks
Without(f, S) == [x \in DOMAIN f \ S |-> f[x]]

(* An entry call takes effect in the cache; a crash may keep or lose it. *)
Rename(names) ==
    [now |-> names, images |-> pinNames.images \cup {names}]
SyncedNames == [pinNames EXCEPT !.images = {pinNames.now}]
SyncedFile(p) == [pinFiles EXCEPT ![p].images = {pinFiles[p].now}]

Truncated(p, n) ==
    LET cut == Holds(SubSeq(pinFiles[p].now.frames, 1, n), FALSE)
    IN  [pinFiles EXCEPT ![p] = [now |-> cut, images |-> @.images \cup {cut}]]

(* Frames written from offset `from` on; the last may be written in part. *)
Written(p, from, frames, torn) ==
    LET kept == SubSeq(pinFiles[p].now.frames, 1, from)
        all  == kept \o frames
        part == {Holds(SubSeq(all, 1, n), t) :
                    n \in from..Len(all) - 1, t \in BOOLEAN}
    IN  [pinFiles EXCEPT ![p] =
            [now    |-> Holds(all, torn),
             images |-> @.images \cup part \cup {Holds(all, torn)}]]

Created(p) ==
    (p :> [now |-> Holds(<<>>, FALSE), images |-> {Holds(<<>>, FALSE)}])
        @@ Without(pinFiles, {p})

-----------------------------------------------------------------------------
(* Checks, prepaid native calls and refusals. *)

At(kinds, at) == pinTask.kind \in kinds /\ pinTask.at = at
Enters(t, n) == [t EXCEPT !.entered = @ + n]
Prepays(t, n) == [t EXCEPT !.reserved = @ + n]

Refused(t, why) == [t EXCEPT !.at = "settle", !.why = why]

Faulty == pinLedger.faults < MaxPinnedFaults
Fault == Faulty /\ pinLedger' = [pinLedger EXCEPT !.faults = @ + 1]
SyncFault == Faulty /\ pinLedger' = [pinLedger EXCEPT !.faults = @ + 1,
                                                     !.unsynced = TRUE]

(* An expired deadline, an exhausted counter, a failed allocation or a     *)
(* refused composing checkpoint stops the operation between two steps.     *)
CheckRefuses ==
    /\ pinTask.at \notin {"idle", "settle"}
    /\ Fault
    /\ pinTask' = Refused(pinTask, "check")
    /\ UNCHANGED <<pinNames, pinFiles, pinStore>>

(* A prepaid directory sync: entered once, whether or not it succeeds. *)
DirectorySync(next) ==
    \/ /\ pinNames' = SyncedNames
       /\ pinTask' = [Enters(pinTask, 1) EXCEPT !.dirPend = "none",
                                               !.at = next]
       /\ UNCHANGED pinLedger
    \/ /\ SyncFault
       /\ pinTask' = Refused([Enters(pinTask, 1) EXCEPT
                                 !.dirPend = "entered"], "io")
       /\ UNCHANGED pinNames


(* fdatasync of the pack whose settlement is pending. *)
DataSync(next) ==
    \/ /\ pinFiles' = SyncedFile(pinTask.pend.pack)
       /\ pinTask' = [Enters(pinTask, 1) EXCEPT !.pend = NoPending,
                                               !.at = next]
       /\ UNCHANGED pinLedger
    \/ /\ SyncFault
       /\ pinTask' = Refused([Enters(pinTask, 1) EXCEPT !.pend.sync = TRUE],
                             "io")
       /\ UNCHANGED pinFiles

-----------------------------------------------------------------------------
(* Opening: finish interrupted deletions, scan and repair, inspect. *)

StartOpen ==
    /\ pinTask.at = "idle" /\ ~pinStore.open
    /\ pinTask' = [IdleTask EXCEPT !.kind = "open", !.at = "cleanup"]
    /\ UNCHANGED <<pinNames, pinFiles, pinStore, pinLedger>>

CleanupPending ==
    /\ At({"open"}, "cleanup")
    /\ \E p \in PendingPacks :
         LET t == [Enters(Prepays(pinTask, 2), 1) EXCEPT !.dirPend = "owed"]
         IN  \/ /\ pinNames' = Rename(Without(pinNames.now, {p}))
                /\ pinTask' = [t EXCEPT !.at = "cleaned"]
                /\ UNCHANGED pinLedger
             \/ /\ Fault
                /\ pinTask' = Refused(t, "io")
                /\ UNCHANGED pinNames
    /\ UNCHANGED <<pinFiles, pinStore>>

SyncCleanup ==
    /\ At({"open"}, "cleaned")
    /\ DirectorySync("cleanup")
    /\ UNCHANGED <<pinFiles, pinStore>>

CreateInitial ==
    /\ At({"open"}, "cleanup") /\ PendingPacks = {} /\ LivePacks = {}
    /\ LET t == [Enters(Prepays(pinTask, 2), 1) EXCEPT !.dirPend = "owed"]
       IN  \/ /\ pinNames' = Rename(0 :> "live")
              /\ pinFiles' = Created(0)
              /\ pinTask' = [t EXCEPT !.at = "cleaned"]
              /\ UNCHANGED pinLedger
           \/ /\ Fault
              /\ pinTask' = Refused(t, "io")
              /\ UNCHANGED <<pinNames, pinFiles>>
    /\ UNCHANGED pinStore

CollectPackNames ==
    /\ At({"open"}, "cleanup") /\ PendingPacks = {} /\ LivePacks # {}
    /\ pinTask' = [pinTask EXCEPT !.at = "scan",
                                  !.todo = SetToSortSeq(LivePacks, <)]
    /\ pinStore' = [Unopened EXCEPT !.paths = LivePacks,
                                    !.active = Max(LivePacks)]
    /\ UNCHANGED <<pinNames, pinFiles, pinLedger>>

(* Packs are scanned in order; only the last may end in part of a frame. *)
Scan ==
    /\ At({"open"}, "scan") /\ pinTask.todo # <<>>
    /\ LET p    == Head(pinTask.todo)
           c    == pinFiles[p].now
           last == p = pinStore.active
           twice == \E i \in DOMAIN c.frames :
                        \/ c.frames[i] \in DOMAIN pinStore.index
                        \/ \E j \in 1..i - 1 : c.frames[j] = c.frames[i]
       IN  IF twice \/ (c.torn /\ ~last)
           THEN /\ pinTask' = Refused(pinTask, "corrupt")
                /\ UNCHANGED pinStore
           ELSE /\ pinStore' = [pinStore EXCEPT
                       !.index = [r \in ToSet(c.frames) |-> p] @@ @,
                       !.scanned = (p :> <<"original", 0>>) @@ @,
                       !.originals = IF last THEN @ ELSE @ \cup {p},
                       !.bytes = IF last THEN Len(c.frames) ELSE 0]
                /\ pinTask' = [pinTask EXCEPT
                       !.todo = Tail(@),
                       !.at = IF c.torn THEN "repair" ELSE "scan"]
    /\ UNCHANGED <<pinNames, pinFiles, pinLedger>>

RepairTail ==
    /\ At({"open"}, "repair")
    /\ LET p == pinStore.active
           t == [Enters(Prepays(pinTask, 2), 1) EXCEPT
                    !.pend = [Pending(p, NoRoll) EXCEPT !.flush = TRUE]]
       IN  \/ /\ pinFiles' = Truncated(p, pinStore.bytes)
              /\ pinTask' = [t EXCEPT !.at = "repaired"]
              /\ UNCHANGED pinLedger
           \/ /\ Fault
              /\ pinTask' = Refused(t, "io")
              /\ UNCHANGED pinFiles
    /\ UNCHANGED <<pinNames, pinStore>>

SyncTail ==
    /\ At({"open"}, "repaired")
    /\ DataSync("scan")
    /\ UNCHANGED <<pinNames, pinStore>>

(* retained_bounds: the records kept are one run of sequences. *)
Contiguous(S) == IF S = {} THEN TRUE ELSE S = Min(S)..Max(S)

(* assemble, then the canonical inspection of the whole index. *)
Assemble ==
    /\ At({"open"}, "scan") /\ pinTask.todo = <<>>
    /\ IF Contiguous(DOMAIN pinStore.index)
       THEN /\ pinStore' = [pinStore EXCEPT
                   !.open = TRUE,
                   !.tracked = [epoch |-> 0, active |-> pinStore.active,
                                bytes |-> pinStore.bytes]]
            /\ pinTask' = IdleTask
       ELSE /\ pinTask' = Refused(pinTask, "canonical")
            /\ UNCHANGED pinStore
    /\ UNCHANGED <<pinNames, pinFiles, pinLedger>>

-----------------------------------------------------------------------------
(* Appending and sealing. *)

Usable == pinStore.open /\ pinTask.at = "idle"

(* The store is the one last tracked: nothing appended, rotated or         *)
(* collected behind the registry's back.                                   *)
Tracked ==
    pinStore.tracked = [epoch  |-> pinStore.epoch,
                        active |-> pinStore.active,
                        bytes  |-> pinStore.bytes]

(* The active file is named, and as long as the store says. *)
ActiveIdentified ==
    /\ pinStore.active \in DOMAIN pinNames.now
    /\ pinFiles[pinStore.active].now =
           Holds(SubSeq(pinFiles[pinStore.active].now.frames, 1,
                        pinStore.bytes), FALSE)

StartWrite(t) ==
    pinTask' = IF Tracked /\ ActiveIdentified THEN t ELSE Refused(t, "stale")

(* The end of the log the caller knows of. *)
NextRecord ==
    IF DOMAIN pinStore.index = {} THEN pinLedger.next
    ELSE Max(DOMAIN pinStore.index) + 1

(* A caller may leave a gap: the bridge has no first = next policy.  One    *)
(* that repeats a sequence is refused before the first byte is written.    *)
AppendGroup ==
    /\ Usable
    /\ \E first \in NextRecord - 1..NextRecord + 1, n \in GroupSizes,
          sync \in BOOLEAN :
         /\ first >= 0 /\ first + n - 1 <= MaxRecord
         /\ first < NextRecord => Faulty
         /\ StartWrite([IdleTask EXCEPT
                !.kind = "append", !.at = "prepare", !.sync = sync,
                !.todo = [i \in 1..n |-> first + i - 1]])
         /\ pinLedger' = [pinLedger EXCEPT
                !.next = Max({@, first + n}),
                !.faults = IF first < NextRecord THEN @ + 1 ELSE @,
                !.gapped = @ \/ (/\ DOMAIN pinStore.index # {}
                                 /\ first > NextRecord)]
    /\ UNCHANGED <<pinNames, pinFiles, pinStore>>

PrepareGroup ==
    /\ At({"append"}, "prepare")
    /\ pinTask' = IF ToSet(pinTask.todo) \cap DOMAIN pinStore.index = {}
                  THEN [pinTask EXCEPT !.at = "route"]
                  ELSE Refused(pinTask, "duplicate")
    /\ UNCHANGED <<pinNames, pinFiles, pinStore, pinLedger>>

SealAt == IF pinStore.bytes # 0 THEN "rotate" ELSE "track"

Seal ==
    /\ Usable
    /\ StartWrite([IdleTask EXCEPT !.kind = "seal", !.at = SealAt])
    /\ UNCHANGED <<pinNames, pinFiles, pinStore, pinLedger>>

(* The next frame needs another pack, or a segment fits this one. *)
Full == pinStore.bytes > 0 /\ pinStore.bytes + 1 > TargetPack
SegmentLength ==
    LET room == IF pinStore.bytes >= TargetPack THEN 1
                ELSE TargetPack - pinStore.bytes
    IN  Min({room, Len(pinTask.todo)})
Segment == SubSeq(pinTask.todo, 1, SegmentLength)

Route ==
    /\ At({"append"}, "route")
    /\ pinTask' = [pinTask EXCEPT !.at =
           IF pinTask.todo = <<>>
           THEN IF pinTask.sync THEN "final" ELSE "track"
           ELSE IF Full THEN "rotate" ELSE "write"]
    /\ UNCHANGED <<pinNames, pinFiles, pinStore, pinLedger>>

(* seek, then rollback, flush and sync are prepaid before the first byte. *)
WriteSegment ==
    /\ At({"append"}, "write")
    /\ LET p    == pinStore.active
           from == pinStore.bytes
           t(n) == [Enters(Prepays(pinTask, 4 + n), 1 + n) EXCEPT
                       !.pend = Pending(p, from)]
       IN  \/ /\ pinFiles' = Written(p, from, Segment, FALSE)
              /\ pinTask' = [t(SegmentLength) EXCEPT !.at = "flush"]
              /\ UNCHANGED pinLedger
           \/ /\ Fault
              /\ \E n \in 0..SegmentLength - 1, torn \in BOOLEAN :
                   /\ pinFiles' = Written(p, from, SubSeq(Segment, 1, n), torn)
                   /\ pinTask' = Refused(t(n + 1), "io")
    /\ UNCHANGED <<pinNames, pinStore>>

FlushSegment ==
    /\ At({"append"}, "flush")
    /\ LET t == [Enters(pinTask, 1) EXCEPT !.pend.flush = TRUE]
       IN  \/ pinTask' = [t EXCEPT !.at = "install"] /\ UNCHANGED pinLedger
           \/ Fault /\ pinTask' = Refused(t, "io")
    /\ UNCHANGED <<pinNames, pinFiles, pinStore>>

(* Once the first location is installed there is no rolling back; the      *)
(* active length follows only when all of them are.                        *)
InstallSegment ==
    /\ At({"append"}, "install")
    /\ LET t == [pinTask EXCEPT !.pend.roll = NoRoll, !.installed = TRUE]
           Installed(n) ==
               [r \in ToSet(SubSeq(Segment, 1, n)) |-> pinStore.active]
                   @@ pinStore.index
       IN  \/ /\ pinStore' = [pinStore EXCEPT
                     !.index = Installed(SegmentLength),
                     !.bytes = @ + SegmentLength]
              /\ pinTask' = [t EXCEPT
                     !.pend = NoPending, !.at = "route", !.installed = FALSE,
                     !.todo = SubSeq(@, SegmentLength + 1, Len(@))]
              /\ UNCHANGED pinLedger
           \/ /\ Fault
              /\ \E n \in 0..SegmentLength :
                   pinStore' = [pinStore EXCEPT !.index = Installed(n)]
              /\ pinTask' = Refused(t, "check")
    /\ UNCHANGED <<pinNames, pinFiles>>

(* Rotation: flush and sync the old pack, create and name the new one,     *)
(* sync the directory, and only then make it the active pack.              *)
RotateFlush ==
    /\ At({"append", "seal", "compact"}, "rotate")
    /\ LET t == [Enters(Prepays(pinTask, 2), 1) EXCEPT
                    !.pend = [Pending(pinStore.active, NoRoll) EXCEPT
                                 !.flush = TRUE]]
       IN  \/ pinTask' = [t EXCEPT !.at = "rotateSync"] /\ UNCHANGED pinLedger
           \/ Fault /\ pinTask' = Refused(t, "io")
    /\ UNCHANGED <<pinNames, pinFiles, pinStore>>

RotateSync ==
    /\ At({"append", "seal", "compact"}, "rotateSync")
    /\ DataSync("create")
    /\ UNCHANGED <<pinNames, pinStore>>

CreatePack ==
    /\ At({"append", "seal", "compact"}, "create")
    /\ LET p == pinStore.active + 1
           t == [Enters(Prepays(pinTask, 2), 1) EXCEPT !.dirPend = "owed"]
       IN  \/ /\ p \notin DOMAIN pinNames.now
              /\ pinNames' = Rename((p :> "live") @@ pinNames.now)
              /\ pinFiles' = Created(p)
              /\ pinStore' = [pinStore EXCEPT !.paths = @ \cup {p}]
              /\ pinTask' = [t EXCEPT !.at = "createSync"]
              /\ UNCHANGED pinLedger
           \/ /\ p \in DOMAIN pinNames.now
              /\ pinTask' = Refused(t, "exists")
              /\ UNCHANGED <<pinNames, pinFiles, pinStore, pinLedger>>
           \/ /\ Fault
              /\ pinTask' = Refused(t, "io")
              /\ UNCHANGED <<pinNames, pinFiles, pinStore>>

CreateSync ==
    /\ At({"append", "seal", "compact"}, "createSync")
    /\ \/ /\ pinNames' = SyncedNames
          /\ pinStore' = [pinStore EXCEPT !.active = @ + 1, !.bytes = 0]
          /\ pinTask' = [Enters(pinTask, 1) EXCEPT
                 !.dirPend = "none", !.rotated = Append(@, pinStore.active),
                 !.at = IF pinTask.kind = "append" THEN "route" ELSE "track"]
          /\ UNCHANGED pinLedger
       \/ /\ SyncFault
          /\ pinTask' = Refused([Enters(pinTask, 1) EXCEPT
                                    !.dirPend = "entered"], "io")
          /\ UNCHANGED <<pinNames, pinStore>>
    /\ UNCHANGED pinFiles

FinalFlush ==
    /\ At({"append"}, "final")
    /\ LET t == [Enters(Prepays(pinTask, 2), 1) EXCEPT
                    !.pend = [Pending(pinStore.active, NoRoll) EXCEPT
                                 !.flush = TRUE]]
       IN  \/ pinTask' = [t EXCEPT !.at = "finalSync"] /\ UNCHANGED pinLedger
           \/ Fault /\ pinTask' = Refused(t, "io")
    /\ UNCHANGED <<pinNames, pinFiles, pinStore>>

FinalSync ==
    /\ At({"append"}, "finalSync")
    /\ DataSync("track")
    /\ UNCHANGED <<pinNames, pinStore>>

(* finish_write_tracking: the file of every rotated pack moves into the    *)
(* catalog of retired packs, and the registry follows.                     *)
FinishWriteTracking ==
    /\ At({"append", "seal", "compact"}, "track")
    /\ LET start == Len(pinStore.retired)
           moved == [p \in ToSet(pinTask.rotated) |->
                        <<"retired", start + SelectInSeq(pinTask.rotated,
                                         LAMBDA q : q = p)>>]
       IN  pinStore' = [pinStore EXCEPT
               !.retired = @ \o pinTask.rotated,
               !.scanned = (pinStore.active :> <<"active", 0>>)
                               @@ moved @@ @,
               !.tracked = [epoch  |-> pinStore.epoch,
                            active |-> pinStore.active,
                            bytes  |-> pinStore.bytes]]
    /\ pinTask' = [pinTask EXCEPT !.at = "bounds"]
    /\ UNCHANGED <<pinNames, pinFiles, pinLedger>>

Promised == IF pinTask.kind = "append" /\ pinTask.sync
            THEN {r \in DOMAIN pinStore.index : r >= pinTask.floor} ELSE {}

(* The canonical bounds are recomputed over the whole index; a gap refuses *)
(* although the frames are on disk.                                        *)
RetainedBounds ==
    /\ At({"append", "seal", "compact"}, "bounds")
    /\ \/ /\ ~Contiguous(DOMAIN pinStore.index)
          /\ pinTask' = Refused(pinTask, "canonical")
          /\ UNCHANGED pinLedger
       \/ /\ Contiguous(DOMAIN pinStore.index)
          /\ pinTask' = IF pinTask.kind = "compact" /\ pinTask.next = 1
                        THEN [pinTask EXCEPT !.at = "plan"] ELSE IdleTask
          /\ pinLedger' = [pinLedger EXCEPT !.acked = @ \cup Promised]
    /\ UNCHANGED <<pinNames, pinFiles, pinStore>>

-----------------------------------------------------------------------------
(* Compaction: seal, then collect the packs whose records are all below    *)
(* the floor, one at a time.                                               *)

CompactBefore ==
    /\ Usable /\ pinLedger.compactions < MaxCompactions
    /\ \E floor \in 1..MaxRecord + 1 :
         /\ StartWrite([IdleTask EXCEPT !.kind = "compact", !.at = SealAt,
                                        !.floor = floor])
         /\ pinLedger' = [pinLedger EXCEPT
                !.compactions = @ + 1, !.floor = Max({@, floor})]
    /\ UNCHANGED <<pinNames, pinFiles, pinStore>>

Extents(p) == {r \in DOMAIN pinStore.index : pinStore.index[r] = p}
Collectable(p) ==
    /\ p < pinStore.active
    /\ Extents(p) # {}
    /\ \A r \in Extents(p) : r < pinTask.floor

(* The descriptor the registry names for a pack. *)
HeldSource(p) ==
    /\ p \in DOMAIN pinStore.scanned
    /\ LET s == pinStore.scanned[p]
       IN  \/ s[1] = "original" /\ p \in pinStore.originals
           \/ /\ s[1] = "retired" /\ s[2] \in DOMAIN pinStore.retired
              /\ pinStore.retired[s[2]] = p

(* Every source is found and compared before the plan epoch moves. *)
PlanCollection ==
    /\ At({"compact"}, "plan")
    /\ LET packs == {p \in pinStore.paths : Collectable(p)}
       IN  IF \E p \in packs : ~HeldSource(p)
           THEN /\ pinTask' = Refused(pinTask, "stale")
                /\ UNCHANGED pinStore
           ELSE /\ pinTask' = [pinTask EXCEPT
                       !.targets = SetToSortSeq(packs, <), !.at = "collect"]
                /\ pinStore' = [pinStore EXCEPT
                       !.epoch = IF packs = {} THEN @ ELSE @ + 1]
    /\ UNCHANGED <<pinNames, pinFiles, pinLedger>>

Target == pinTask.targets[pinTask.next]

RenamePack ==
    /\ At({"compact"}, "collect") /\ pinTask.next <= Len(pinTask.targets)
    /\ LET t == [Enters(Prepays(pinTask, 2), 1) EXCEPT !.dirPend = "owed"]
       IN  \/ /\ pinNames' = Rename([pinNames.now EXCEPT
                                        ![Target] = "pending"])
              /\ pinTask' = [t EXCEPT !.at = "renamed"]
              /\ UNCHANGED pinLedger
           \/ /\ Fault
              /\ pinTask' = Refused(t, "io")
              /\ UNCHANGED pinNames
    /\ UNCHANGED <<pinFiles, pinStore>>

SyncRename ==
    /\ At({"compact"}, "renamed")
    /\ DirectorySync("unindex")
    /\ UNCHANGED <<pinFiles, pinStore>>

(* The pack, its batches and its locations leave the indexes one by one.   *)
RemoveIndexes ==
    /\ At({"compact"}, "unindex")
    /\ \/ /\ pinStore' = [pinStore EXCEPT
                 !.paths = @ \ {Target},
                 !.index = Without(@, Extents(Target))]
          /\ pinTask' = [pinTask EXCEPT !.at = "unlink"]
          /\ UNCHANGED pinLedger
       \/ /\ Fault
          /\ \E gone \in SUBSET Extents(Target) :
               pinStore' = [pinStore EXCEPT !.paths = @ \ {Target},
                                            !.index = Without(@, gone)]
          /\ pinTask' = Refused(pinTask, "check")
    /\ UNCHANGED <<pinNames, pinFiles>>

UnlinkPack ==
    /\ At({"compact"}, "unlink")
    /\ LET t == [Enters(Prepays(pinTask, 2), 1) EXCEPT !.dirPend = "owed"]
       IN  \/ /\ pinNames' = Rename(Without(pinNames.now, {Target}))
              /\ pinTask' = [t EXCEPT !.at = "unlinked"]
              /\ UNCHANGED pinLedger
           \/ /\ Fault
              /\ pinTask' = Refused(t, "io")
              /\ UNCHANGED pinNames
    /\ UNCHANGED <<pinFiles, pinStore>>

SyncUnlink ==
    /\ At({"compact"}, "unlinked")
    /\ \/ /\ pinNames' = SyncedNames
          /\ pinTask' = [Enters(pinTask, 1) EXCEPT
                 !.dirPend = "none", !.next = @ + 1, !.at = "collect"]
          /\ UNCHANGED pinLedger
       \/ /\ SyncFault
          /\ pinTask' = Refused([Enters(pinTask, 1) EXCEPT
                                    !.dirPend = "entered"], "io")
          /\ UNCHANGED pinNames
    /\ UNCHANGED <<pinFiles, pinStore>>

(* Each hole of the catalog takes the pack of the last slot, whose         *)
(* registration is retagged, and the last slot is popped.                  *)
RECURSIVE Densify(_, _)
Densify(retired, scanned) ==
    LET holes == {i \in DOMAIN retired : retired[i] = -1}
        last  == Len(retired)
        pack  == retired[last]
        hole  == Min(holes)
    IN  IF holes = {} THEN [retired |-> retired, scanned |-> scanned]
        ELSE Densify(SubSeq([retired EXCEPT ![hole] = pack], 1, last - 1),
                     IF pack = -1 THEN scanned
                     ELSE [scanned EXCEPT ![pack] = <<"retired", hole>>])

(* retire_completed_gc: collected files go to quarantine, their            *)
(* registrations are removed and the catalog is made dense again.          *)
RetireCompletedGc ==
    /\ At({"compact"}, "collect") /\ pinTask.next > Len(pinTask.targets)
    /\ LET gone  == ToSet(pinTask.targets)
           holed == [i \in DOMAIN pinStore.retired |->
                        IF pinStore.retired[i] \in gone
                        THEN -1 ELSE pinStore.retired[i]]
           dense == Densify(holed, Without(pinStore.scanned, gone))
       IN  pinStore' = [pinStore EXCEPT
               !.originals = @ \ gone,
               !.retired = dense.retired, !.scanned = dense.scanned,
               !.tracked.epoch = pinStore.epoch]
    /\ pinTask' = [pinTask EXCEPT
           !.at = "bounds", !.next = Len(pinTask.targets) + 2]
    /\ UNCHANGED <<pinNames, pinFiles, pinLedger>>

-----------------------------------------------------------------------------
(* Reading: a plan over the index, then one read for each run of planned   *)
(* frames in one pack, from the descriptor the registry names for it.      *)

PlanRead ==
    /\ Usable
    /\ \E start \in {0, MaxRecord} :
         LET planned == {r \in DOMAIN pinStore.index : r >= start}
             t == [IdleTask EXCEPT !.kind = "read", !.at = "range",
                                   !.todo = SetToSortSeq(planned, <)]
         IN  /\ planned # {}
             /\ pinTask' = IF Tracked THEN t ELSE Refused(t, "stale")
    /\ UNCHANGED <<pinNames, pinFiles, pinStore, pinLedger>>

RangePack == pinStore.index[Head(pinTask.todo)]
TrackedSource(p) ==
    /\ p \in pinStore.paths \cap DOMAIN pinStore.scanned
    /\ \/ p = pinStore.active /\ Tracked
       \/ HeldSource(p)

PrepareRange ==
    /\ At({"read"}, "range") /\ pinTask.todo # <<>>
    /\ pinTask' = IF TrackedSource(RangePack)
                  THEN [pinTask EXCEPT !.at = "rangeNamed"]
                  ELSE Refused(pinTask, "stale")
    /\ UNCHANGED <<pinNames, pinFiles, pinStore, pinLedger>>

ValidateRange ==
    /\ At({"read"}, "rangeNamed")
    /\ pinTask' = IF RangePack \in LivePacks
                  THEN [pinTask EXCEPT !.at = "rangeRead"]
                  ELSE Refused(pinTask, "identity")
    /\ UNCHANGED <<pinNames, pinFiles, pinStore, pinLedger>>

(* The coalesced range; a frame the file does not hold ends the read early. *)
ReadRange ==
    /\ At({"read"}, "rangeRead")
    /\ LET run == {r \in ToSet(pinTask.todo) : pinStore.index[r] = RangePack}
           t   == Enters(Prepays(pinTask, 1), 1)
       IN  \/ /\ pinTask' = IF run \subseteq ToSet(pinFiles[RangePack].now.frames)
                            THEN [t EXCEPT !.at = "range",
                                     !.todo = SelectSeq(@, LAMBDA r : r \notin run)]
                            ELSE Refused(t, "eof")
              /\ UNCHANGED pinLedger
           \/ Fault /\ pinTask' = Refused(t, "io")
    /\ UNCHANGED <<pinNames, pinFiles, pinStore>>

(* Every range and the pin are validated again before the records leave. *)
FinishRead ==
    /\ At({"read"}, "range") /\ pinTask.todo = <<>>
    /\ pinTask' = IdleTask
    /\ UNCHANGED <<pinNames, pinFiles, pinStore, pinLedger>>

-----------------------------------------------------------------------------
(* After a refusal only prepaid calls are entered, each once and whatever  *)
(* became of the one before it.                                            *)

Owed == pinTask.at = "settle"

SettleRollback ==
    /\ Owed /\ pinTask.pend.roll # NoRoll
    /\ LET t == [Enters(pinTask, 1) EXCEPT !.pend.roll = NoRoll]
       IN  \/ /\ pinFiles' = Truncated(pinTask.pend.pack, pinTask.pend.roll)
              /\ pinTask' = t
              /\ UNCHANGED pinLedger
           \/ /\ Fault
              /\ pinTask' = [t EXCEPT !.lost = TRUE]
              /\ UNCHANGED pinFiles
    /\ UNCHANGED <<pinNames, pinStore>>

SettleFlush ==
    /\ Owed /\ pinTask.pend.roll = NoRoll /\ ~pinTask.pend.flush
    /\ pinTask' = [Enters(pinTask, 1) EXCEPT !.pend.flush = TRUE]
    /\ UNCHANGED <<pinNames, pinFiles, pinStore, pinLedger>>

SettleSync ==
    /\ Owed /\ pinTask.pend.roll = NoRoll
    /\ pinTask.pend.flush /\ ~pinTask.pend.sync
    /\ LET t == [Enters(pinTask, 1) EXCEPT !.pend.sync = TRUE]
       IN  \/ /\ pinFiles' = SyncedFile(pinTask.pend.pack)
              /\ pinTask' = t
              /\ UNCHANGED pinLedger
           \/ /\ SyncFault
              /\ pinTask' = [t EXCEPT !.lost = TRUE]
              /\ UNCHANGED pinFiles
    /\ UNCHANGED <<pinNames, pinStore>>

FileSettled == pinTask.pend.flush /\ pinTask.pend.sync
                   /\ pinTask.pend.roll = NoRoll

SettleDirectory ==
    /\ Owed /\ FileSettled /\ pinTask.dirPend = "owed"
    /\ LET t == [Enters(pinTask, 1) EXCEPT !.dirPend = "entered"]
       IN  \/ /\ pinNames' = SyncedNames
              /\ pinTask' = t
              /\ UNCHANGED pinLedger
           \/ /\ SyncFault
              /\ pinTask' = [t EXCEPT !.lost = TRUE]
              /\ UNCHANGED pinNames
    /\ UNCHANGED <<pinFiles, pinStore>>

(* The refused owner keeps the log until it is dropped: no retry, no       *)
(* extraction.                                                             *)
DropRefused ==
    /\ Owed /\ FileSettled /\ pinTask.dirPend # "owed"
    /\ pinTask' = IdleTask
    /\ pinStore' = Unopened
    /\ UNCHANGED <<pinNames, pinFiles, pinLedger>>

(* The process stops; each file and the directory keep one of their images.*)
PinnedCrash ==
    /\ pinLedger.crashes < MaxPinnedCrashes
    /\ pinLedger' = [pinLedger EXCEPT !.crashes = @ + 1]
    /\ \E names \in pinNames.images :
         /\ pinNames' = [now |-> names, images |-> {names}]
         /\ \E kept \in [DOMAIN names -> UNION {pinFiles[p].images :
                                                   p \in DOMAIN names}] :
              /\ \A p \in DOMAIN names : kept[p] \in pinFiles[p].images
              /\ pinFiles' = [p \in DOMAIN names |->
                                 [now |-> kept[p], images |-> {kept[p]}]]
    /\ pinStore' = Unopened
    /\ pinTask' = IdleTask

PinnedOpens == StartOpen \/ CleanupPending \/ SyncCleanup \/ CreateInitial
                   \/ CollectPackNames \/ Scan \/ RepairTail \/ SyncTail
                   \/ Assemble
PinnedWrites == AppendGroup \/ PrepareGroup \/ Seal \/ Route \/ WriteSegment \/ FlushSegment
                    \/ InstallSegment \/ RotateFlush \/ RotateSync
                    \/ CreatePack \/ CreateSync \/ FinalFlush \/ FinalSync
                    \/ FinishWriteTracking \/ RetainedBounds
PinnedCollects == CompactBefore \/ PlanCollection \/ RenamePack \/ SyncRename
                      \/ RemoveIndexes \/ UnlinkPack \/ SyncUnlink
                      \/ RetireCompletedGc
PinnedSettles == CheckRefuses \/ SettleRollback \/ SettleFlush \/ SettleSync
                     \/ SettleDirectory \/ DropRefused

PinnedReads == PlanRead \/ PrepareRange \/ ValidateRange \/ ReadRange
                   \/ FinishRead

PinnedNext ==
    PinnedOpens \/ PinnedWrites \/ PinnedCollects \/ PinnedReads \/ PinnedSettles
        \/ PinnedCrash

PinnedSpec == PinnedInit /\ [][PinnedNext]_pinVars

-----------------------------------------------------------------------------
(* Properties. *)

(* A record whose durable append was answered with a receipt is in every   *)
(* log opened later, through rotations, refused operations, interrupted    *)
(* collections and crashes, unless a compaction was asked to remove it or  *)
(* the file system itself failed a sync: opening finds a name or bytes     *)
(* that such a sync left in the cache and does not sync them again.        *)
PinnedSurvives ==
    pinStore.open /\ ~pinLedger.unsynced =>
        {r \in pinLedger.acked : r >= pinLedger.floor}
            \subseteq DOMAIN pinStore.index

(* As long as no caller left a gap, neither a torn sealed pack, nor a      *)
(* duplicate, nor a gap ever makes the log refuse to open or to answer.    *)
PinnedReopens ==
    pinTask.why \in {"corrupt", "canonical", "exists"} => pinLedger.gapped

(* While the log may be used, the registry names exactly the live packs,   *)
(* each with a descriptor that is held for it, the catalog has no hole,    *)
(* and no operation finds its own store stale: a read of any record in the *)
(* index finds the named pack and the frame in it.                         *)
RegistryExact ==
    /\ pinTask.why \notin {"stale", "identity", "eof"}
    /\ Usable => /\ DOMAIN pinStore.scanned = pinStore.paths
                 /\ \A p \in pinStore.paths \ {pinStore.active} :
                        HeldSource(p)
                 /\ -1 \notin ToSet(pinStore.retired)

(* A refused operation always finds the slot of the call it still owes,    *)
(* and the file it settles is the one the store still writes to.           *)
SettlementPrepaid ==
    /\ pinTask.entered <= pinTask.reserved
    /\ pinTask.pend.pack # -1 => pinTask.pend.pack = pinStore.active
    /\ (Owed /\ FileSettled /\ pinTask.dirPend # "owed"
            /\ pinTask.pend.pack # -1 /\ ~pinTask.lost
            /\ pinTask.kind = "append" /\ ~pinTask.installed) =>
           Len(pinFiles[pinStore.active].now.frames) = pinStore.bytes


=============================================================================
