----------------------------- MODULE ObjectTier -----------------------------
(***************************************************************************)
(* The object tier of one shard: sealed packs copied into immutable        *)
(* objects, immutable numbered manifests that list them, and CURRENT, the  *)
(* one name that says which manifest counts.                               *)
(*                                                                         *)
(* Writers are handles opened on the same tier: two ordinary ones that     *)
(* take UPDATE.lock for each offload, and one opened under a recovery      *)
(* census that keeps the lock. Each file-system call is a step of its own, *)
(* so a call may be cut off (an I/O error, or the original expiry of the   *)
(* `_until` forms) or the power lost between any two. A name is durable    *)
(* once its directory is synced, a file's bytes once the file is; CURRENT  *)
(* and the manifests share a directory. Sealed packs do not change, so the *)
(* bytes of an object are those of its pack and a digest is compared by    *)
(* whether the file is whole.                                              *)
(***************************************************************************)
EXTENDS Integers, FiniteSets, Sequences, SequencesExt

CONSTANTS
  TierWriters,     \* handles opened on the tier
  CensusWriters,   \* those opened under a recovery census
  PackExtents,     \* by sealed pack sequence 1..n: its extents <<first, last>>
  Stamps,          \* values of created_unix_ms
  MaxTierFaults,   \* bound: calls cut off
  MaxPowerLosses,  \* bound
  NoManifest,      \* a generation without a file
  NoWriter

Packs == DOMAIN PackExtents
Generations == 1..Cardinality(Packs)

ASSUME TierAssumption ==
  /\ CensusWriters \subseteq TierWriters
  /\ PackExtents \in Seq(SUBSET (Nat \X Nat))
  /\ \A p \in Packs : PackExtents[p] # {}
  /\ MaxTierFaults \in Nat /\ MaxPowerLosses \in Nat

VARIABLES
  objects,      \* by pack: is it named, are its bytes on disk, is its name
  manifests,    \* by generation: NoManifest or the file
  current,      \* the generation CURRENT names, 0 without one
  keptCurrent,         \* the generations CURRENT may name after a power loss
  writers,      \* by handle: its view of the manifest and the offload it runs
  updateLock,   \* who holds UPDATE.lock
  published,    \* packs whose offload was answered
  unsettled,    \* the packs and generations with a name that a cut-off call left
                \* without its sync: the object, the manifest or CURRENT
  tierFaults, powerLosses

tierVars == <<objects, manifests, current, keptCurrent, writers, updateLock, published, unsettled,
              tierFaults, powerLosses>>

NoObject == [named |-> FALSE, whole |-> FALSE, data |-> FALSE, entry |-> FALSE]
EmptyView == [generation |-> 0, packs |-> <<>>]
Closed == [pc |-> "closed", view |-> EmptyView, pack |-> 0, stamp |-> 0]

TierInit ==
  /\ objects = [p \in Packs |-> NoObject]
  /\ manifests = [g \in Generations |-> NoManifest]
  /\ current = 0 /\ keptCurrent = {0}
  /\ writers = [w \in TierWriters |-> Closed]
  /\ updateLock = NoWriter
  /\ published = {} /\ unsettled = {}
  /\ tierFaults = 0 /\ powerLosses = 0

SameDisk == UNCHANGED <<objects, manifests, current, keptCurrent>>
SameLedger == UNCHANGED <<published, unsettled, tierFaults, powerLosses>>

-----------------------------------------------------------------------------
(* Reading the tier. *)

\* covered_through: the end of the ranges that follow each other from 0.
\* Mutant: a range that starts one past the end is taken to follow it.
CoveredThroughGap(extents) ==
  LET ranges == SetToSortSeq(extents, LAMBDA a, b : a[1] < b[1] \/ (a[1] = b[1] /\ a[2] < b[2]))
  IN FoldLeft(LAMBDA acc, r :
                IF acc.stop \/ r[1] > acc.end + 1 THEN [acc EXCEPT !.stop = TRUE]
                ELSE [acc EXCEPT !.end = IF r[2] + 1 > @ THEN r[2] + 1 ELSE @],
              [end |-> 0, stop |-> FALSE], ranges).end

CoveredThrough(extents) ==
  LET ranges == SetToSortSeq(extents, LAMBDA a, b : a[1] < b[1] \/ (a[1] = b[1] /\ a[2] < b[2]))
  IN FoldLeft(LAMBDA acc, r :
                IF acc.stop \/ r[1] > acc.end THEN [acc EXCEPT !.stop = TRUE]
                ELSE [acc EXCEPT !.end = IF r[2] + 1 > @ THEN r[2] + 1 ELSE @],
              [end |-> 0, stop |-> FALSE], ranges).end

PacksOf(view) == {view.packs[i].pack : i \in DOMAIN view.packs}

ViewCovers(view) == CoveredThrough(UNION {PackExtents[p] : p \in PacksOf(view)})

\* validate: pack sequences strictly increase.
ValidManifest(packs) == \A i \in 1..(Len(packs) - 1) : packs[i].pack < packs[i + 1].pack

\* load_current_manifest: a missing CURRENT is an empty tier, a missing or
\* torn manifest refuses.
Loads(g) ==
  IF g = 0 THEN TRUE
  ELSE IF manifests[g] = NoManifest THEN FALSE
  ELSE manifests[g].whole /\ ValidManifest(manifests[g].packs)

Loaded(g) == IF g = 0 THEN EmptyView ELSE [generation |-> g, packs |-> manifests[g].packs]

\* verify_object: the named file has the length and digest of the manifest.
Verifies(p) == objects[p].named /\ objects[p].whole

-----------------------------------------------------------------------------
(* Opening. *)

\* A census takes the lock first, without waiting, and keeps it in the handle.
OpenUnderCensus(w) ==
  /\ w \in CensusWriters /\ writers[w].pc = "closed" /\ updateLock = NoWriter
  /\ Loads(current) /\ \A p \in PacksOf(Loaded(current)) : Verifies(p)
  /\ writers' = [writers EXCEPT ![w] = [Closed EXCEPT !.pc = "open", !.view = Loaded(current)]]
  /\ updateLock' = w
  /\ SameDisk /\ SameLedger

OpenTier(w) ==
  /\ w \notin CensusWriters /\ writers[w].pc = "closed"
  /\ Loads(current) /\ \A p \in PacksOf(Loaded(current)) : Verifies(p)
  /\ writers' = [writers EXCEPT ![w] = [Closed EXCEPT !.pc = "open", !.view = Loaded(current)]]
  /\ UNCHANGED updateLock /\ SameDisk /\ SameLedger

CloseTier(w) ==
  /\ writers[w].pc = "open"
  /\ writers' = [writers EXCEPT ![w] = Closed]
  /\ updateLock' = IF updateLock = w THEN NoWriter ELSE updateLock
  /\ SameDisk /\ SameLedger

-----------------------------------------------------------------------------
(* offload_pack, one file-system call at a time. *)

LastOf(view) == IF view.packs = <<>> THEN 0 ELSE Last(view.packs).pack

Goto(w, pc) == writers' = [writers EXCEPT ![w].pc = pc]

\* The end of a call: an ordinary handle drops its lock.
Return(w, view) ==
  /\ writers' = [writers EXCEPT ![w] = [Closed EXCEPT !.pc = "open", !.view = view]]
  /\ updateLock' = IF w \in CensusWriters THEN updateLock ELSE NoWriter

\* The lock spans the copy and the publication. A pack already in the
\* handle's manifest is compared and answered; one below its last is refused.
BeginOffload(w, p) ==
  /\ writers[w].pc = "open"
  /\ updateLock = IF w \in CensusWriters THEN w ELSE NoWriter
  /\ p \notin PacksOf(writers[w].view) /\ p > LastOf(writers[w].view)
  /\ \E stamp \in Stamps :
       writers' = [writers EXCEPT ![w].pc = "copy", ![w].pack = p, ![w].stamp = stamp]
  /\ updateLock' = w
  /\ SameDisk /\ SameLedger

AnswerExisting(w, p) ==
  /\ writers[w].pc = "open"
  /\ updateLock = IF w \in CensusWriters THEN w ELSE NoWriter
  /\ p \in PacksOf(writers[w].view) /\ Verifies(p)
  /\ published' = published \cup {p}
  /\ UNCHANGED <<writers, updateLock, unsettled, tierFaults, powerLosses>> /\ SameDisk

\* An object that is already there is compared with the pack and reused.
ReuseObject(w) ==
  /\ writers[w].pc = "copy" /\ objects[writers[w].pack].named
  /\ IF Verifies(writers[w].pack) THEN Goto(w, "verify") /\ UNCHANGED updateLock
     ELSE Return(w, writers[w].view)
  /\ SameDisk /\ SameLedger

\* The copy is written and synced under a temporary name, then renamed.
\* Mutant: the copy is renamed before its bytes are synced.
CopyObjectUnsynced(w) ==
  /\ writers[w].pc = "copy" /\ ~objects[writers[w].pack].named
  /\ objects' = [objects EXCEPT ![writers[w].pack] =
                   [named |-> TRUE, whole |-> TRUE, data |-> FALSE, entry |-> FALSE]]
  /\ Goto(w, "object_named")
  /\ UNCHANGED <<manifests, current, keptCurrent, updateLock>> /\ SameLedger

CopyObject(w) ==
  /\ writers[w].pc = "copy" /\ ~objects[writers[w].pack].named
  /\ objects' = [objects EXCEPT ![writers[w].pack] =
                   [named |-> TRUE, whole |-> TRUE, data |-> TRUE, entry |-> FALSE]]
  /\ Goto(w, "object_named")
  /\ UNCHANGED <<manifests, current, keptCurrent, updateLock>> /\ SameLedger

\* Mutant: the directory of the objects is not synced.
SyncObjectsSkipped(w) ==
  /\ writers[w].pc = "object_named"
  /\ Goto(w, "verify")
  /\ UNCHANGED updateLock /\ SameDisk /\ SameLedger

SyncObjects(w) ==
  /\ writers[w].pc = "object_named"
  /\ objects' = [p \in Packs |-> [objects[p] EXCEPT !.entry = @ \/ objects[p].named]]
  /\ Goto(w, "verify")
  /\ UNCHANGED <<manifests, current, keptCurrent, updateLock>> /\ SameLedger

VerifyCopy(w) ==
  /\ writers[w].pc = "verify"
  /\ IF Verifies(writers[w].pack) THEN Goto(w, "publish") /\ UNCHANGED updateLock
     ELSE Return(w, writers[w].view)
  /\ SameDisk /\ SameLedger

NextManifest(w) ==
  LET v == writers[w].view IN
    [generation |-> v.generation + 1,
     packs |-> Append(v.packs, [pack |-> writers[w].pack, stamp |-> writers[w].stamp])]

\* publish_manifest is conditional on the generation the handle last saw, and
\* a generation that already has a file is taken over only if it says the same.
\* Mutant: the generation on disk is not compared with the handle's.
PublishAnyGeneration(w) ==
  /\ writers[w].pc = "publish"
  /\ LET g == NextManifest(w).generation IN
       IF ~Loads(current) THEN Return(w, writers[w].view) /\ SameDisk
       ELSE /\ manifests' = [manifests EXCEPT ![g] = [packs |-> NextManifest(w).packs, whole |-> FALSE,
                                                      synced |-> FALSE, entry |-> FALSE]]
            /\ Goto(w, "manifest_created") /\ UNCHANGED <<objects, current, keptCurrent, updateLock>>
  /\ SameLedger

PublishManifest(w) ==
  /\ writers[w].pc = "publish"
  /\ LET g == NextManifest(w).generation IN
       IF ~Loads(current) \/ current # writers[w].view.generation
       THEN Return(w, writers[w].view) /\ SameDisk
       ELSE IF manifests[g] = NoManifest
       THEN /\ manifests' = [manifests EXCEPT ![g] = [packs |-> NextManifest(w).packs, whole |-> FALSE,
                                                      synced |-> FALSE, entry |-> FALSE]]
            /\ Goto(w, "manifest_created") /\ UNCHANGED <<objects, current, keptCurrent, updateLock>>
       ELSE IF manifests[g].whole /\ manifests[g].packs = NextManifest(w).packs
       THEN Goto(w, "pointer") /\ UNCHANGED updateLock /\ SameDisk
       ELSE Return(w, writers[w].view) /\ SameDisk
  /\ SameLedger

WriteManifest(w) ==
  /\ writers[w].pc = "manifest_created"
  /\ manifests' = [manifests EXCEPT ![NextManifest(w).generation].whole = TRUE]
  /\ Goto(w, "manifest_bytes")
  /\ UNCHANGED <<objects, current, keptCurrent, updateLock>> /\ SameLedger

SyncManifest(w) ==
  /\ writers[w].pc = "manifest_bytes"
  /\ manifests' = [manifests EXCEPT ![NextManifest(w).generation].synced = TRUE]
  /\ Goto(w, "manifest_written")
  /\ UNCHANGED <<objects, current, keptCurrent, updateLock>> /\ SameLedger

\* fsync of the manifests' directory, which is CURRENT's directory too.
ManifestEntries == [g \in Generations |->
              IF manifests[g] = NoManifest THEN NoManifest
              ELSE [manifests[g] EXCEPT !.entry = TRUE]]

SyncManifests(w) ==
  /\ writers[w].pc = "manifest_written"
  /\ manifests' = ManifestEntries /\ keptCurrent' = {current}
  /\ Goto(w, "pointer")
  /\ UNCHANGED <<objects, current, updateLock>> /\ SameLedger

\* The pointer is written and synced under a temporary name and renamed.
RenameCurrent(w) ==
  /\ writers[w].pc = "pointer"
  /\ current' = NextManifest(w).generation
  /\ keptCurrent' = keptCurrent \cup {NextManifest(w).generation}
  /\ Goto(w, "renamed")
  /\ UNCHANGED <<objects, manifests, updateLock>> /\ SameLedger

\* Mutant: the answer is given once CURRENT is renamed.
SyncCurrentEarly(w) ==
  /\ writers[w].pc = "renamed"
  /\ published' = published \cup {writers[w].pack}
  /\ Return(w, NextManifest(w))
  /\ UNCHANGED <<objects, manifests, current, keptCurrent, unsettled, tierFaults, powerLosses>>

SyncCurrent(w) ==
  /\ writers[w].pc = "renamed"
  /\ keptCurrent' = {current} /\ manifests' = ManifestEntries
  /\ published' = published \cup {writers[w].pack}
  /\ Return(w, NextManifest(w))
  /\ UNCHANGED <<objects, current, unsettled, tierFaults, powerLosses>>

\* The last sync settles after the expiry: the publication stands, the handle
\* keeps the view it had and the call is refused.
SettleLate(w) ==
  /\ writers[w].pc = "renamed" /\ tierFaults < MaxTierFaults
  /\ tierFaults' = tierFaults + 1
  /\ keptCurrent' = {current} /\ manifests' = ManifestEntries
  /\ Return(w, writers[w].view)
  /\ UNCHANGED <<objects, current, published, unsettled, powerLosses>>

-----------------------------------------------------------------------------
(* Faults. *)

\* The call is refused between two of its steps. Its handle keeps the view it
\* had; what it left on disk stays.
Interrupt(w) ==
  /\ writers[w].pc \notin {"closed", "open"} /\ tierFaults < MaxTierFaults
  /\ tierFaults' = tierFaults + 1
  /\ unsettled' = IF writers[w].pc \in {"object_named", "manifest_bytes", "manifest_written", "renamed"} 
                  THEN unsettled \cup {[pack |-> writers[w].pack,
                                        generation |-> NextManifest(w).generation]}
                  ELSE unsettled
  /\ Return(w, writers[w].view)
  /\ SameDisk /\ UNCHANGED <<published, powerLosses>>

\* Power is lost: a name that was not synced may be gone, bytes that were not
\* synced are torn, and CURRENT is any of the files it may lead to.
LoseTierPower ==
  /\ powerLosses < MaxPowerLosses
  /\ powerLosses' = powerLosses + 1
  /\ \E lost \in SUBSET {p \in Packs : objects[p].named /\ ~objects[p].entry} :
       objects' = [p \in Packs |-> IF p \in lost THEN NoObject
                                   ELSE [objects[p] EXCEPT !.entry = objects[p].named,
                                                           !.whole = objects[p].data]]
  /\ \E gone \in SUBSET {g \in Generations : manifests[g] # NoManifest /\ ~manifests[g].entry} :
       manifests' = [g \in Generations |->
                       IF g \in gone \/ manifests[g] = NoManifest THEN NoManifest
                       ELSE [manifests[g] EXCEPT !.entry = TRUE, !.whole = manifests[g].synced]]
  /\ current' \in keptCurrent /\ keptCurrent' = {current'}
  /\ writers' = [w \in TierWriters |-> Closed]
  /\ updateLock' = NoWriter
  /\ UNCHANGED <<published, unsettled, tierFaults>>

-----------------------------------------------------------------------------
OffloadStep(w) ==
  \/ \E p \in Packs : BeginOffload(w, p) \/ AnswerExisting(w, p)
  \/ ReuseObject(w) \/ CopyObject(w) \/ SyncObjects(w) \/ VerifyCopy(w) \/ PublishManifest(w)
  \/ WriteManifest(w) \/ SyncManifest(w) \/ SyncManifests(w) \/ RenameCurrent(w) \/ SyncCurrent(w)

TierNext ==
  \/ \E w \in TierWriters : OpenUnderCensus(w) \/ OpenTier(w) \/ CloseTier(w) \/ OffloadStep(w)
                            \/ SettleLate(w) \/ Interrupt(w)
  \/ LoseTierPower

TierSpec == TierInit /\ [][TierNext]_tierVars

-----------------------------------------------------------------------------
(* Properties. *)

UnsettledPacks == {u.pack : u \in unsettled}
UnsettledGenerations == {u.generation : u \in unsettled}

ObjectSurvives(p) == objects[p].named /\ objects[p].data /\ objects[p].entry

\* Whichever manifest CURRENT leads to after a power loss, at any moment of
\* any writer's offload: the manifest is there, whole, and so is every object
\* it lists. The next open of the tier, on which the lane worker's start
\* depends, then succeeds. What is in `unsettled` is left out: the next offload
\* reuses an object or a manifest, or answers from a CURRENT, that a refused
\* call named and did not sync, without syncing it.
CurrentOpens ==
  \A g \in keptCurrent \ (UnsettledGenerations \cup {0}) :
    /\ manifests[g] # NoManifest /\ ValidManifest(manifests[g].packs)
    /\ manifests[g].synced /\ manifests[g].entry
    /\ \A p \in PacksOf(Loaded(g)) \ UnsettledPacks : ObjectSurvives(p)

\* A pack whose offload was answered - the producer's object-durable
\* acknowledgement - is listed by every manifest CURRENT may lead to: no later
\* writer, stale, recovered or cut off, and no power loss takes it out again.
ObjectsSurvive == \A p \in published \ UnsettledPacks :
                    \A g \in keptCurrent \ UnsettledGenerations : p \in PacksOf(Loaded(g))

\* The object-backed watermark of an open handle promises only offsets that an
\* object which survives holds, whatever the order the packs' ranges come in.
CoverageSurvives ==
  \A w \in TierWriters :
    \A o \in 0..(ViewCovers(writers[w].view) - 1) :
      \E p \in PacksOf(writers[w].view) :
        /\ \E r \in PackExtents[p] : o \in r[1]..r[2]
        /\ p \notin UnsettledPacks => ObjectSurvives(p)

\* What the tier promises of the objects behind an object-durable answer.
TierSafe == CurrentOpens /\ ObjectsSurvive /\ CoverageSurvives

=============================================================================
