---------------------------- MODULE RecoveryCensus ----------------------------
(***************************************************************************)
(* The native recovery census of the engine crate: one attempt reads every *)
(* native source (journal, primary packs, packs pending deletion, tier     *)
(* manifests and objects) under leases and a cumulative allowance, then    *)
(* either opens the storage as it is or first rehydrates the objects that  *)
(* CURRENT names into the primary directories, and hands the opened        *)
(* storage to an engine.  recovery_census.rs, recovery_restore.rs,         *)
(* recovery_primary.rs, recovery_catalog.rs.                               *)
(*                                                                         *)
(* A name on disk is a key; a pack's bytes are one value.  "torn" is a     *)
(* pack whose last frame is incomplete, "cut" the same pack after native   *)
(* open truncated it.  The five allowances of NativeRecoveryLimits are one *)
(* number.  Names become durable at the directory sync; a crash may take   *)
(* the ones not synced.                                                    *)
(***************************************************************************)
EXTENDS Integers, FiniteSets, Sequences, FiniteSetsExt

CONSTANTS
  Shards,        \* the configured shards
  PackSeqs,      \* 0 .. n, the pack sequence numbers
  Gens,          \* tier manifest generations
  Absent,        \* a name that is not there
  CensusCases    \* [disk, limit, route, engine, crashes, foreign]: what the first
                 \* attempt starts from, and how many faults may befall it

VARIABLES
  disk,          \* [Keys -> content or Absent]
  volatile,      \* names published and not yet synced by their directory
  attempt,       \* the Attempt, see Fresh
  way,           \* the case, and whether its disk was consistent
  crashes, foreign

censusVars == <<disk, volatile, attempt, way, crashes, foreign>>

KJournal == <<"journal", 0, 0>>
KDir(s) == <<"dir", s, 0>>
KPack(s, n) == <<"primary", s, n>>
KPending(s, n) == <<"pending", s, n>>
KCurrent(s) == <<"current", s, 0>>
KManifest(s, g) == <<"manifest", s, g>>
KObject(s, n) == <<"object", s, n>>

Keys ==
  {KJournal} \cup {KDir(s) : s \in Shards} \cup {KCurrent(s) : s \in Shards}
    \cup {KPack(s, n) : s \in Shards, n \in PackSeqs}
    \cup {KPending(s, n) : s \in Shards, n \in PackSeqs}
    \cup {KObject(s, n) : s \in Shards, n \in PackSeqs}
    \cup {KManifest(s, g) : s \in Shards, g \in Gens}

OnDisk(ks) == {k \in ks : disk[k] # Absent}
PackKeys(s) == {KPack(s, n) : n \in PackSeqs}
PendingKeys(s) == {KPending(s, n) : n \in PackSeqs}
ObjectKeys(s) == {KObject(s, n) : n \in PackSeqs}
ManifestKeys(s) == {KManifest(s, g) : g \in Gens}

(* An Attempt before its first step. *)
FreshAttempt ==
  [phase |-> "idle", todo |-> <<>>, facts |-> <<>>, missing |-> {}, guards |-> {},
   used |-> 0, prepaid |-> 0, credit |-> -1, openPrepaid |-> FALSE,
   started |-> FALSE, mutated |-> FALSE, parents |-> {}, opened |-> {},
   clock |-> "open", denied |-> 0, fault |-> "none",
   bare |-> FALSE]   \* some attempt opened the storage without a restore

(* A disk the engine's own writers leave: CURRENT names a manifest and     *)
(* whole objects, a pack it covers has the object's bytes, and only the    *)
(* newest pack may be torn.                                                *)
Consistent(d) ==
  \A s \in Shards :
    /\ d[KCurrent(s)] # Absent =>
         /\ d[KManifest(s, d[KCurrent(s)])] # Absent
         /\ \A o \in d[KManifest(s, d[KCurrent(s)])] :
              /\ d[KObject(s, o[1])] = o[2]
              /\ \A k \in {KPack(s, o[1]), KPending(s, o[1])} : d[k] \in {Absent, o[2]}
    /\ \A m, n \in PackSeqs :
         m < n /\ d[KPack(s, n)] # Absent => d[KPack(s, m)] # "torn"

CensusInit ==
  \E c \in CensusCases :
    /\ disk = c.disk
    /\ way = [limit |-> c.limit, route |-> c.route, engine |-> c.engine,
              crashes |-> c.crashes, foreign |-> c.foreign, sound |-> Consistent(c.disk)]
    /\ volatile = {}
    /\ attempt = FreshAttempt
    /\ crashes = 0
    /\ foreign = 0

CensusSources == DOMAIN attempt.facts
SelectedObjects(s) ==
  IF KCurrent(s) \in CensusSources
    THEN attempt.facts[KManifest(s, attempt.facts[KCurrent(s)])]
    ELSE {}

(* What one source costs in a validation pass: fixed work, and its bytes.  *)
SourceCost(k) == IF k[1] = "primary" /\ attempt.facts[k] = "empty" THEN 1 ELSE 2
PassCost == FoldSet(LAMBDA k, n : SourceCost(k) + n, 0, CensusSources)

(* Attempt::clock and PrimaryRecovery::check.  The owned route also asks   *)
(* the health checks; both refuse for good.                                *)
AttemptHalted ==
  \/ attempt.clock = "expired"
  \/ attempt.clock = "unhealthy" /\ way.route = "owned"

(* A refusal ends the attempt; NativeRecoveryError keeps everything it     *)
(* held.  On the owned route primary_operation denies the shared budget    *)
(* and the health checks, once.                                            *)
RefuseCensus(why) ==
  /\ attempt' = [attempt EXCEPT !.phase = "refused", !.fault = why, !.todo = <<>>,
                   !.denied = IF way.route = "owned" THEN 1 ELSE 0]
  /\ UNCHANGED <<disk, volatile, way, crashes, foreign>>

(* Attempt::charge: against the prepaid credit while a prepaid validation  *)
(* runs, against the allowance otherwise.                                  *)
WithinAllowance(n) ==
  IF attempt.credit >= 0 THEN n <= attempt.credit ELSE attempt.used + n <= way.limit
AttemptCharged(a, n) ==
  IF a.credit >= 0 THEN [a EXCEPT !.credit = @ - n] ELSE [a EXCEPT !.used = @ + n]

(* One step of a phase: the clock, the charge, then the work.              *)
CensusStep(cost, sound, why, next) ==
  IF AttemptHalted THEN RefuseCensus(attempt.clock)
  ELSE IF ~WithinAllowance(cost) THEN RefuseCensus("capacity")
  ELSE IF ~sound THEN RefuseCensus(why)
  ELSE /\ attempt' = AttemptCharged(next, cost)
       /\ UNCHANGED <<disk, volatile, way, crashes, foreign>>

Doing(kind) == attempt.todo # <<>> /\ Head(attempt.todo)[1] = kind
Dequeued == [attempt EXCEPT !.todo = Tail(@)]
Requeued(items) == [attempt EXCEPT !.todo = items \o Tail(@)]

ItemsOf(kind, ks) == FoldSet(LAMBDA k, q : Append(q, <<kind, k>>), <<>>, ks)
ShardItems(kind) == ItemsOf(kind, Shards)

-----------------------------------------------------------------------------
(* NativeRecoveryCensus::read_mode and Attempt::read. *)
BeginRead ==
  /\ attempt.phase = "idle"
  /\ CensusStep(1, TRUE, "none",
       [attempt EXCEPT !.phase = "reading",
          !.todo = <<<<"journal">>>> \o ShardItems("shard") \o ShardItems("tier")
                     \o <<<<"validate">>, <<"end">>>>])

(* optional_file: the journal is scanned or recorded as absent. *)
ReadJournal ==
  /\ Doing("journal")
  /\ CensusStep(1, TRUE, "none",
       IF disk[KJournal] = Absent
         THEN [Dequeued EXCEPT !.missing = @ \cup {KJournal}]
         ELSE Requeued(<<<<"scan", KJournal>>>>))

(* ShardRecoveryGuard::try_acquire, or PrimaryRecovery::acquire. *)
Leased(a, s) == [a EXCEPT !.guards = @ \cup {s}]

(* A shard directory: absent, or leased and every pack in it listed.       *)
ReadShard ==
  /\ Doing("shard")
  /\ LET s == Head(attempt.todo)[2] IN
     CensusStep(1, TRUE, "none",
       IF disk[KDir(s)] = Absent
         THEN [Dequeued EXCEPT !.missing = @ \cup {KDir(s)}]
         ELSE Leased(Requeued(ItemsOf("scan", OnDisk(PackKeys(s) \cup PendingKeys(s)))), s))

(* scan_tier: CURRENT, then every manifest, then what CURRENT selects.     *)
ReadTier ==
  /\ Doing("tier")
  /\ LET s == Head(attempt.todo)[2] IN
     CensusStep(1, TRUE, "none",
       Requeued(ItemsOf("scan", OnDisk({KCurrent(s)} \cup ManifestKeys(s)))
              \o <<<<"objects", s>>>>))

(* The objects CURRENT names must be there, whole and as it describes      *)
(* them; a CURRENT that selects no manifest refuses.  Unreferenced objects *)
(* are scanned too.                                                        *)
ReadObjects ==
  /\ Doing("objects")
  /\ LET s == Head(attempt.todo)[2]
         dangling == KCurrent(s) \in CensusSources
                       /\ KManifest(s, attempt.facts[KCurrent(s)]) \notin CensusSources
     IN CensusStep(1, ~dangling, "identity",
          Requeued(ItemsOf("verify", {<<s, o>> : o \in SelectedObjects(s)})
                 \o ItemsOf("scan", OnDisk(ObjectKeys(s))
                                   \ {KObject(s, o[1]) : o \in SelectedObjects(s)})))

VerifyObject ==
  /\ Doing("verify")
  /\ LET s == Head(attempt.todo)[2][1]
         o == Head(attempt.todo)[2][2]
     IN CensusStep(2, disk[KObject(s, o[1])] = o[2], "identity",
          Requeued(<<<<"scan", KObject(s, o[1])>>>>))

(* scan_source: hash, parse the frames, hash again.  A torn tail is kept   *)
(* as an observation; a name that went away since it was listed refuses.   *)
ScanSource ==
  /\ Doing("scan")
  /\ LET k == Head(attempt.todo)[2] IN
     CensusStep(2, disk[k] # Absent, "identity",
       [Requeued(<<<<"rehash", k>>>>)
          EXCEPT !.facts = [x \in CensusSources \cup {k} |->
                              IF x = k THEN disk[k] ELSE @[x]]])

RehashSource ==
  /\ Doing("rehash")
  /\ LET k == Head(attempt.todo)[2] IN
     CensusStep(0, disk[k] = attempt.facts[k], "identity", Dequeued)

(* validate_sources, one source a step: identity, then a full rehash.      *)
ValidateSources ==
  /\ Doing("validate")
  /\ CensusStep(0, TRUE, "none", Requeued(ItemsOf("source", CensusSources)))

ValidateSource ==
  /\ Doing("source")
  /\ LET k == Head(attempt.todo)[2] IN
     CensusStep(SourceCost(k), disk[k] = attempt.facts[k], "identity", Dequeued)

EndRead ==
  /\ attempt.phase = "reading" /\ Doing("end")
  /\ CensusStep(0, TRUE, "none", [Dequeued EXCEPT !.phase = "census"])

-----------------------------------------------------------------------------
(* read_source_chunk: a charged read between two identity checks. *)
ReadSourceChunk(k) ==
  /\ attempt.phase = "census"
  /\ k \in CensusSources
  /\ CensusStep(3, disk[k] = attempt.facts[k], "identity", attempt)

(* catalog: a charged reduction of the retained journal; nothing is kept.  *)
Catalog ==
  /\ attempt.phase = "census"
  /\ CensusStep(2, TRUE, "none", attempt)

(* restore_storage, or open_storage without a restore. *)
BeginRestore ==
  /\ attempt.phase = "census"
  /\ CensusStep(1, TRUE, "none",
       [attempt EXCEPT !.phase = "restoring",
          !.todo = <<<<"validate">>, <<"absent">>, <<"plan">>>>])

BeginOpen ==
  /\ attempt.phase = "census"
  /\ CensusStep(0, TRUE, "none",
       [attempt EXCEPT !.phase = "opening", !.bare = TRUE,
          !.todo = <<<<"validate">>, <<"absent">>, <<"admit">>>> \o ShardItems("open")])

(* What the census found missing must still be missing, but for the        *)
(* directories the restore itself made.                                    *)
CheckAbsent ==
  /\ Doing("absent")
  /\ CensusStep(0, \A k \in attempt.missing : disk[k] = Absent \/ k \in attempt.parents,
          "identity", Dequeued)

SeqsIn(ks) == {k[3] : k \in ks}
Highest(s) == Max({-1} \cup SeqsIn(CensusSources \cap PackKeys(s)))
LastCurrent(s) == Max({-1} \cup {o[1] : o \in SelectedObjects(s)})

(* Mutant: no active successor is made for a store restored from objects. *)
ActivesNone == {}

(* The active successor, when no primary pack is above CURRENT's last.     *)
Actives == {<<s, LastCurrent(s) + 1>> : s \in
             {x \in Shards : LastCurrent(x) >= 0 /\ Highest(x) <= LastCurrent(x)}}

(* A recognizable primary or pending pack with other bytes than the object *)
(* of its number, or a destination the census never saw.                   *)
PackConflicts ==
  \E s \in Shards : \E o \in SelectedObjects(s) :
    \/ KObject(s, o[1]) \notin CensusSources
    \/ \E k \in {KPack(s, o[1]), KPending(s, o[1])} \cap CensusSources :
         attempt.facts[k] # o[2]
    \/ KPack(s, o[1]) \notin CensusSources /\ disk[KPack(s, o[1])] # Absent
Copies ==
  {c \in Shards \X PackSeqs :
     /\ c[2] \in {o[1] : o \in SelectedObjects(c[1])}
     /\ KPack(c[1], c[2]) \notin CensusSources}

(* storage_open_admission. *)
OpenCost == Cardinality(Shards) + Cardinality(CensusSources)
CopyCost == 2 * Cardinality(Copies)

(* Mutant: the open after the restore is charged when it comes. *)
PlanRestoreUnpaid ==
  /\ Doing("plan")
  /\ CensusStep(CopyCost + PassCost, ~PackConflicts, "identity",
       [Requeued(ShardItems("mkdir") \o ItemsOf("copy", Copies) \o ItemsOf("active", Actives)
               \o <<<<"prepaid">>, <<"validate">>, <<"settle">>, <<"absent">>, <<"admit">>>>
               \o ShardItems("open"))
          EXCEPT !.prepaid = PassCost, !.started = TRUE])

(* Every charge of the restore and of the open after it is made here,      *)
(* before the first name is created.                                       *)
PlanRestore ==
  /\ Doing("plan")
  /\ CensusStep(CopyCost + OpenCost + PassCost, ~PackConflicts, "identity",
       [Requeued(ShardItems("mkdir") \o ItemsOf("copy", Copies) \o ItemsOf("active", Actives)
               \o <<<<"prepaid">>, <<"validate">>, <<"settle">>, <<"absent">>, <<"admit">>>>
               \o ShardItems("open"))
          EXCEPT !.openPrepaid = TRUE, !.prepaid = PassCost, !.started = TRUE])

(* A step that changes the disk: no charge is left to make.                *)
ChangeDisk(sound, why, newDisk, newVolatile, next) ==
  IF AttemptHalted THEN RefuseCensus(attempt.clock)
  ELSE IF ~sound THEN RefuseCensus(why)
  ELSE /\ attempt' = [next EXCEPT !.mutated = TRUE]
       /\ disk' = newDisk
       /\ volatile' = newVolatile
       /\ UNCHANGED <<way, crashes, foreign>>

(* The shard's directory and lock, created, synced and leased.             *)
MakeShard ==
  /\ Doing("mkdir")
  /\ LET s == Head(attempt.todo)[2] IN
     ChangeDisk(TRUE, "none", [disk EXCEPT ![KDir(s)] = "dir"], volatile,
       Leased([Dequeued EXCEPT !.parents = @ \cup {KDir(s)}], s))


(* The copy goes to a temporary, which is hashed against the fact and      *)
(* linked without replacing: a name that appeared meanwhile refuses.       *)
PublishPack ==
  /\ Doing("copy")
  /\ LET s == Head(attempt.todo)[2][1]
         n == Head(attempt.todo)[2][2]
         k == KObject(s, n)
     IN ChangeDisk(disk[k] = attempt.facts[k] /\ disk[KPack(s, n)] = Absent, "identity",
          [disk EXCEPT ![KPack(s, n)] = attempt.facts[k]], volatile \cup {KPack(s, n)},
          Requeued(<<<<"sync", KPack(s, n)>>>>))

CreateActive ==
  /\ Doing("active")
  /\ LET k == KPack(Head(attempt.todo)[2][1], Head(attempt.todo)[2][2]) IN
     ChangeDisk(disk[k] = Absent, "identity", [disk EXCEPT ![k] = "empty"],
       volatile \cup {k}, Requeued(<<<<"sync", k>>>>))

SyncDirectory ==
  /\ Doing("sync")
  /\ ChangeDisk(TRUE, "none", disk, volatile \ {Head(attempt.todo)[2]}, Dequeued)

-----------------------------------------------------------------------------
(* open_storage_inner: the prepaid pass must spend its credit exactly.     *)
UsePrepaid ==
  /\ Doing("prepaid")
  /\ CensusStep(0, TRUE, "none",
       [Dequeued EXCEPT !.phase = "opening", !.credit = attempt.prepaid])

SettlePrepaid ==
  /\ Doing("settle")
  /\ CensusStep(0, attempt.credit = 0, "capacity", [Dequeued EXCEPT !.credit = -1])

AdmitOpen ==
  /\ Doing("admit")
  /\ CensusStep(IF attempt.openPrepaid THEN 0 ELSE OpenCost, TRUE, "none", Dequeued)

(* ShardStore's open: pending deletions are finished, an empty store gets  *)
(* pack 0, and a torn tail is cut from the last pack.                      *)
SeqsThere(s) == SeqsIn(OnDisk(PackKeys(s)))
NativeOpen(s) ==
  [k \in Keys |->
     IF k \in PendingKeys(s) THEN Absent
     ELSE IF k = KDir(s) THEN "dir"
     ELSE IF k = KPack(s, 0) /\ SeqsThere(s) = {} THEN "empty"
     ELSE IF k = KPack(s, Max({-1} \cup SeqsThere(s))) /\ disk[k] = "torn" THEN "cut"
     ELSE disk[k]]

(* Its pack scan refuses an incomplete frame in any other pack. *)
SealedTorn(s) == \E n, m \in SeqsThere(s) : n < m /\ disk[KPack(s, n)] = "torn"

(* LocalObjectTier's open rehashes every object of CURRENT. *)
TierUnsound(s) == \E o \in SelectedObjects(s) : disk[KObject(s, o[1])] # o[2]

(* PrimaryRecovery::open pins the directory under the lease it acquired.   *)
Unleased(s) == way.route = "owned" /\ s \notin attempt.guards

OpenShard ==
  /\ Doing("open")
  /\ LET s == Head(attempt.todo)[2] IN
     ChangeDisk(~Unleased(s) /\ ~SealedTorn(s) /\ ~TierUnsound(s),
       IF Unleased(s) THEN "unleased" ELSE "identity", NativeOpen(s), volatile,
       [Dequeued EXCEPT !.opened = @ \cup {s},
          !.phase = IF Tail(attempt.todo) = <<>> THEN "opened" ELSE @])

(* admit_engine: only a restored, engine-mode attempt becomes an engine.   *)
AdmitEngine ==
  /\ attempt.phase = "opened"
  /\ CensusStep(Cardinality(CensusSources), way.engine /\ attempt.started, "mode",
       [attempt EXCEPT !.phase = "admitted"])

(* recovery_open_journal: the journal the census read, or a new one.       *)
OpenJournal ==
  /\ attempt.phase = "admitted"
  /\ LET known == KJournal \in CensusSources IN
     IF ~WithinAllowance(2) THEN RefuseCensus("capacity") ELSE
     ChangeDisk(
       IF known THEN disk[KJournal] = attempt.facts[KJournal] ELSE disk[KJournal] = Absent,
       "identity", [disk EXCEPT ![KJournal] = "kept"], volatile,
       AttemptCharged([attempt EXCEPT !.phase = "journal"], 2))

(* finish_engine_custody: leases stay, the facts outlive their files.      *)
FinishCustody ==
  /\ attempt.phase = "journal"
  /\ CensusStep(0, TRUE, "none", [attempt EXCEPT !.phase = "engine"])

-----------------------------------------------------------------------------
Attempting == attempt.phase \notin {"idle", "refused", "engine"}

(* The absolute expiry passes, or the caller's health checks fail. *)
HaltAttempt(how) ==
  /\ Attempting
  /\ attempt.clock = "open"
  /\ attempt' = [attempt EXCEPT !.clock = how]
  /\ UNCHANGED <<disk, volatile, way, crashes, foreign>>

(* Another process changes or creates a pack outside the leases. *)
Disturb ==
  /\ Attempting
  /\ foreign < way.foreign
  /\ \E k \in Keys, v \in {"b", Absent} :
       /\ k[1] \in {"primary", "object"}
       /\ disk[k] # v
       /\ disk' = [disk EXCEPT ![k] = v]
  /\ foreign' = foreign + 1
  /\ UNCHANGED <<volatile, attempt, way, crashes>>

(* The process ends, or drops a refused attempt and tries again; after a   *)
(* power cut any of the unsynced names may be gone.                        *)
RetryRecovery(lost) ==
  /\ attempt.phase # "idle"
  /\ crashes < way.crashes
  /\ lost \subseteq volatile
  /\ disk' = [k \in Keys |-> IF k \in lost THEN Absent ELSE disk[k]]
  /\ volatile' = {}
  /\ attempt' = [FreshAttempt EXCEPT !.bare = attempt.bare]
  /\ crashes' = crashes + 1
  /\ UNCHANGED <<way, foreign>>

CensusProceeds ==
  \/ BeginRead \/ ReadJournal \/ ReadShard \/ ReadTier \/ ReadObjects \/ VerifyObject
  \/ ScanSource \/ RehashSource \/ ValidateSources \/ ValidateSource \/ EndRead
  \/ BeginRestore \/ BeginOpen \/ CheckAbsent \/ PlanRestore \/ MakeShard \/ PublishPack
  \/ CreateActive \/ SyncDirectory \/ UsePrepaid \/ SettlePrepaid \/ AdmitOpen
  \/ OpenShard \/ AdmitEngine \/ OpenJournal \/ FinishCustody

CensusNext ==
  \/ CensusProceeds
  \/ Catalog
  \/ \E k \in Keys : ReadSourceChunk(k)
  \/ \E how \in {"expired", "unhealthy"} : HaltAttempt(how)
  \/ Disturb
  \/ \E lost \in SUBSET volatile : RetryRecovery(lost)

CensusSpec == CensusInit /\ [][CensusNext]_censusVars

-----------------------------------------------------------------------------
(* A pack that is on disk never gets other bytes from a recovery: the      *)
(* restore links without replacing and the open only cuts a torn tail.     *)
RestoreNeverReplaces ==
  [][\A k \in Keys :
       /\ k[1] = "primary" /\ disk[k] # Absent
       /\ foreign' = foreign /\ crashes' = crashes
       => disk'[k] \in {disk[k]} \cup (IF disk[k] = "torn" THEN {"cut"} ELSE {})]_censusVars

(* Storage opened by a restore holds every object that CURRENT names as a  *)
(* primary pack with the object's bytes, and appends go to a pack above    *)
(* all of them (restore_objects: "otherwise native open would append into  *)
(* the last restored object").                                             *)
OpenedHoldsCurrent ==
  attempt.phase \in {"opened", "admitted", "journal", "engine"}
      /\ attempt.started /\ foreign = 0 =>
    \A s \in Shards : \A o \in SelectedObjects(s) :
      /\ disk[KPack(s, o[1])] = o[2]
      /\ \E n \in PackSeqs : n > o[1] /\ disk[KPack(s, n)] # Absent

(* A restore that runs out of allowance has made no directory or pack: the *)
(* copy, the open and the exact final validation pass are all prepaid.     *)
NoLateCapacity ==
  attempt.fault = "capacity" /\ attempt.started /\ attempt.opened # Shards =>
    ~attempt.mutated

(* Whatever point a crash stops a recovery at, the next one finds a disk   *)
(* it accepts: only the clock, the health checks, the allowance or the     *)
(* caller's mode refuse, never what an earlier restore left behind.  (A    *)
(* bare open_storage on a node that lost its packs creates an empty pack   *)
(* 0, and every later restore refuses that pack.)                          *)
Restartable ==
  way.sound /\ foreign = 0 /\ ~attempt.bare => attempt.fault # "identity"

=============================================================================
