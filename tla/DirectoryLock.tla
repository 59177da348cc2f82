--------------------------- MODULE DirectoryLock ---------------------------
(***************************************************************************)
(* Exclusive custody of an engine's directory between processes            *)
(* (crates/shard-stream-core/src/directory_ownership.rs and the bounded    *)
(* acquisition of directory_acquire_native.rs).                            *)
(*                                                                         *)
(* Processes race to create the components of one path, to create the lock *)
(* file in it and to take its advisory lock, each by its own system calls; *)
(* an operator may move a directory aside or remove the lock's name while  *)
(* they do, and a deadline may pass between any two calls.  A process uses *)
(* `acquire' or `acquire_until'; an owner may validate its directory.      *)
(*                                                                         *)
(* Level 0 is the filesystem's root, level k the k-th component, and the   *)
(* entry below level Depth is the lock file.  An inode is a number, given  *)
(* in the order of creation; `named[i]' is what the one name of interest   *)
(* in directory i leads to.  Symbolic links are not modelled: no call here *)
(* follows one, so a link is a name that cannot be opened.                 *)
(***************************************************************************)
EXTENDS Naturals, Sequences, FiniteSets, SequencesExt

CONSTANTS
  LockProcs,      \* the processes that want the directory
  Depth,          \* components of the path
  Present,        \* how many of them exist at the start
  MaxCreated,     \* max_created_directories of the bounded acquisition
  MaxMoves,       \* bound: what the operator does
  Unlinked        \* no inode

ASSUME LockAssumption ==
  /\ Depth \in Nat \ {0} /\ Present \in 0..Depth
  /\ MaxCreated \in Nat /\ MaxMoves \in Nat

VARIABLES
  named,          \* directory inode -> the inode its name leads to, or Unlinked
  durable,        \* the <<directory, inode>> entries that a power loss keeps
  flock,          \* lock-file inode -> its holder; absent when unlocked
  tries,          \* process -> its attempt or its ownership
  moves           \* operator steps taken

lockVars == <<named, durable, flock, tries, moves>>

FreshInode == Cardinality(DOMAIN named)
FreshTry(api) ==
  [api |-> api, pc |-> "open", walk |-> <<>>, again |-> <<>>, lock |-> Unlinked,
   made |-> {}, oblig |-> Unlinked, late |-> FALSE, calls |-> 0, creations |-> 0,
   why |-> "none"]

LockInit ==
  /\ named = [i \in 0..Present |-> IF i < Present THEN i + 1 ELSE Unlinked]
  /\ durable = {<<i, i + 1>> : i \in 0..(Present - 1)}
  /\ flock = [i \in {} |-> Unlinked]
  /\ tries \in [LockProcs -> {FreshTry("acquire"), FreshTry("acquire_until")}]
  /\ moves = 0

-----------------------------------------------------------------------------
(* The filesystem.                                                         *)

PathInode[k \in 0..(Depth + 1)] ==
  IF k = 0 THEN 0
  ELSE IF PathInode[k - 1] = Unlinked THEN Unlinked ELSE named[PathInode[k - 1]]
\* Links of a file: a lock file has one name, in the directory that holds it.
Links(i) == Cardinality({d \in DOMAIN named : named[d] = i})

MakeEntry(d) ==
  named' = [i \in DOMAIN named \cup {FreshInode} |->
              IF i = d THEN FreshInode ELSE IF i = FreshInode THEN Unlinked ELSE named[i]]

\* fsync of a directory makes the entries it has durable.
SyncEntries(d) == durable' = {e \in durable : e[1] # d} \cup {<<d, named[d]>>}

Try(p, pc) == tries[p].pc = pc
Become(p, t) == tries' = [tries EXCEPT ![p] = t]
LockRefused(t, why) == [t EXCEPT !.pc = "failed", !.why = why, !.oblig = Unlinked]

\* A refused attempt keeps what it opened, its lock included, until it is dropped.
Fail(p, why) ==
  /\ Become(p, LockRefused(tries[p], why))
  /\ UNCHANGED <<named, durable, flock, moves>>

-----------------------------------------------------------------------------
(* acquire_until                                                           *)

\* Native calls one acquisition may make: `cost'.
CallCeiling == 12 * Depth + 40
\* `prepare' pays for closing every descriptor the attempt can come to hold.
CloseFee == 2 * (Depth + 1) + 1 + 1

\* The calls each phase pays for before it starts: a creation with its settlement.
Fee == [open |-> CloseFee + 1, meta |-> 1, root |-> 1, mkdir |-> 4, reopen |-> 1, lock |-> 3,
        lockopen |-> 1, settled |-> 1, flock |-> 1, rewalk |-> 1, recheck |-> 1, named |-> 4,
        completed |-> 0]

\* `clock' and `entry': nothing starts after the deadline, or past the ceiling.
Paid(p, pc) ==
  /\ Try(p, pc) /\ tries[p].api = "acquire_until" /\ ~tries[p].late
  /\ tries[p].calls + Fee[pc] <= CallCeiling
Charged(p) == [tries[p] EXCEPT !.calls = @ + Fee[tries[p].pc]]

\* The deadline is seen at the next check; a settlement under way goes on first.
RefuseLate(p) ==
  /\ tries[p].api = "acquire_until" /\ tries[p].late /\ tries[p].pc \in DOMAIN Fee
  /\ Fail(p, "Expired")

RefuseCapacity(p) ==
  /\ tries[p].api = "acquire_until" /\ ~tries[p].late /\ tries[p].pc \in DOMAIN Fee
  /\ \/ tries[p].pc = "mkdir" /\ tries[p].creations >= MaxCreated
     \/ tries[p].calls + Fee[tries[p].pc] > CallCeiling
  /\ Fail(p, "Capacity")

PrepareAcquire(p) ==
  /\ Paid(p, "open")
  /\ Become(p, [Charged(p) EXCEPT !.pc = "meta", !.walk = <<0>>])
  /\ UNCHANGED <<named, durable, flock, moves>>

\* Metadata of the opened component, then the next one, or the lock.
StatComponent(p) ==
  /\ Paid(p, "meta")
  /\ Become(p, [Charged(p) EXCEPT !.pc = IF Len(tries[p].walk) = Depth + 1
                                            THEN "lock" ELSE "root"])
  /\ UNCHANGED <<named, durable, flock, moves>>

OpenComponent(p) ==
  /\ Paid(p, "root")
  /\ LET child == named[Last(tries[p].walk)] IN
       Become(p, IF child = Unlinked THEN [Charged(p) EXCEPT !.pc = "mkdir"]
                 ELSE [Charged(p) EXCEPT !.pc = "meta", !.walk = Append(@, child)])
  /\ UNCHANGED <<named, durable, flock, moves>>

\* Mutant: a component that appeared meanwhile refuses the acquisition.
CreateDirectoryRaced(p) ==
  /\ Paid(p, "mkdir") /\ tries[p].creations < MaxCreated
  /\ LET d == Last(tries[p].walk)
         t == [Charged(p) EXCEPT !.creations = @ + 1]
     IN IF named[d] = Unlinked
        THEN /\ MakeEntry(d)
             /\ Become(p, [t EXCEPT !.pc = "settle", !.made = @ \cup {<<d, FreshInode>>}])
        ELSE Become(p, LockRefused(t, "Native")) /\ UNCHANGED named
  /\ UNCHANGED <<durable, flock, moves>>

\* mkdirat: a name that appeared meanwhile is opened instead.  The call is paid
\* for together with the settlement it may oblige.
CreateDirectory(p) ==
  /\ Paid(p, "mkdir") /\ tries[p].creations < MaxCreated
  /\ LET d == Last(tries[p].walk)
         t == [Charged(p) EXCEPT !.creations = @ + 1]
     IN \/ /\ named[d] = Unlinked
           /\ MakeEntry(d)
           /\ Become(p, [t EXCEPT !.pc = "settle", !.oblig = Unlinked,
                                  !.made = @ \cup {<<d, FreshInode>>}])
        \/ /\ named[d] # Unlinked
           /\ Become(p, [t EXCEPT !.pc = "reopen"])
           /\ UNCHANGED named
  /\ UNCHANGED <<durable, flock, moves>>

ReopenDirectory(p) ==
  /\ Paid(p, "reopen")
  /\ LET child == named[Last(tries[p].walk)] IN
       Become(p, IF child = Unlinked THEN LockRefused(Charged(p), "Native")
                 ELSE [Charged(p) EXCEPT !.pc = "meta", !.walk = Append(@, child)])
  /\ UNCHANGED <<named, durable, flock, moves>>

\* `settle': the created child is opened and synced, and then its parent, both
\* paid for already.  No deadline is looked at in between.
SettleOpen(p) ==
  /\ Try(p, "settle")
  /\ LET child == named[Last(tries[p].walk)] IN
       Become(p, [tries[p] EXCEPT !.pc = "sync",
                    !.oblig = child, !.why = IF child = Unlinked THEN "Native" ELSE @])
  /\ UNCHANGED <<named, durable, flock, moves>>

\* Mutant: a deadline that passed abandons the settlement.
SettleSyncTimely(p) ==
  /\ Try(p, "sync")
  /\ LET t == tries[p] IN
       IF t.late THEN Become(p, LockRefused(t, "Expired")) /\ UNCHANGED durable
       ELSE /\ SyncEntries(Last(t.walk))
            /\ Become(p, IF t.why # "none" THEN LockRefused(t, t.why)
                         ELSE IF t.lock # Unlinked THEN [t EXCEPT !.pc = "settled"]
                         ELSE [t EXCEPT !.pc = "meta", !.walk = Append(@, t.oblig)])
  /\ UNCHANGED <<named, flock, moves>>

SettleLockSync(p) ==
  /\ Try(p, "sync")
  /\ LET t == tries[p]
         d == Last(t.walk)
         done == [t EXCEPT !.oblig = Unlinked]
     IN /\ SyncEntries(d)
        /\ Become(p, IF t.why # "none" THEN LockRefused(t, t.why)
                     ELSE IF t.lock # Unlinked THEN [done EXCEPT !.pc = "settled"]
                     ELSE [done EXCEPT !.pc = "meta", !.walk = Append(@, t.oblig)])
  /\ UNCHANGED <<named, flock, moves>>

\* The lock file, created exclusively or opened.
CreateLock(p) ==
  /\ Paid(p, "lock")
  /\ LET root == Last(tries[p].walk) IN
       \/ /\ named[root] = Unlinked
          /\ MakeEntry(root)
          /\ Become(p, [Charged(p) EXCEPT !.pc = "sync", !.lock = FreshInode,
                          !.oblig = FreshInode, !.made = @ \cup {<<root, FreshInode>>}])
       \/ /\ named[root] # Unlinked
          /\ Become(p, [Charged(p) EXCEPT !.pc = "lockopen"])
          /\ UNCHANGED named
  /\ UNCHANGED <<durable, flock, moves>>

OpenLock(p) ==
  /\ Paid(p, "lockopen")
  /\ LET lock == named[Last(tries[p].walk)] IN
       Become(p, IF lock = Unlinked THEN LockRefused(Charged(p), "Native")
                 ELSE [Charged(p) EXCEPT !.pc = "settled", !.lock = lock])
  /\ UNCHANGED <<named, durable, flock, moves>>

\* Its metadata: a regular file of exactly one name.
StatLock(p) ==
  /\ Paid(p, "settled")
  /\ Become(p, IF Links(tries[p].lock) # 1 THEN LockRefused(Charged(p), "Identity")
               ELSE [Charged(p) EXCEPT !.pc = "flock"])
  /\ UNCHANGED <<named, durable, flock, moves>>

\* try_lock never waits.
TakeLock(t, p) ==
  IF t.lock \in DOMAIN flock
  THEN /\ Become(p, LockRefused(t, "Contended"))
       /\ UNCHANGED flock
  ELSE /\ flock' = [i \in DOMAIN flock \cup {t.lock} |-> IF i = t.lock THEN p ELSE flock[i]]
       /\ Become(p, [t EXCEPT !.pc = "rewalk"])

AdvisoryLock(p) ==
  /\ Paid(p, "flock")
  /\ TakeLock(Charged(p), p)
  /\ UNCHANGED <<named, durable, moves>>

\* The second walk compares every component with the first.
RewalkOpen(p) ==
  /\ Paid(p, "rewalk")
  /\ LET next == IF tries[p].again = <<>> THEN 0 ELSE named[Last(tries[p].again)] IN
       Become(p, IF next = Unlinked THEN LockRefused(Charged(p), "Native")
                 ELSE [Charged(p) EXCEPT !.pc = "recheck", !.again = Append(@, next)])
  /\ UNCHANGED <<named, durable, flock, moves>>

RewalkCompare(p) ==
  /\ Paid(p, "recheck")
  /\ LET t == tries[p] IN
       Become(p, IF Last(t.again) # t.walk[Len(t.again)] THEN LockRefused(Charged(p), "Identity")
                 ELSE [Charged(p) EXCEPT !.pc = IF Len(t.again) = Depth + 1 THEN "named"
                                                   ELSE "rewalk"])
  /\ UNCHANGED <<named, durable, flock, moves>>

\* The named lock is still the locked file; the owner is complete.
CompareLock(p) ==
  /\ Paid(p, "named")
  /\ LET t == tries[p]
         there == named[Last(t.again)]
     IN Become(p, IF there = Unlinked THEN LockRefused(Charged(p), "Native")
                  ELSE IF there # t.lock \/ Links(t.lock) # 1
                       THEN LockRefused(Charged(p), "Identity")
                  ELSE [Charged(p) EXCEPT !.pc = "completed"])
  /\ UNCHANGED <<named, durable, flock, moves>>

ReturnOwner(p) ==
  /\ Paid(p, "completed")
  /\ Become(p, [tries[p] EXCEPT !.pc = "owner"])
  /\ UNCHANGED <<named, durable, flock, moves>>

-----------------------------------------------------------------------------
(* acquire: the same custody by path, with no deadline and no settlement.  *)

Plain(p, pc) == Try(p, pc) /\ tries[p].api = "acquire"
FirstMissing == CHOOSE k \in 0..Depth : PathInode[k + 1] = Unlinked /\ PathInode[k] # Unlinked

\* fs::create_dir_all makes one missing component after the other.
CreateMissing(p) ==
  /\ Plain(p, "open")
  /\ \/ /\ PathInode[Depth] = Unlinked
        /\ MakeEntry(PathInode[FirstMissing])
        /\ UNCHANGED tries
     \/ /\ PathInode[Depth] # Unlinked
        /\ Become(p, [tries[p] EXCEPT !.pc = "canon"])
        /\ UNCHANGED named
  /\ UNCHANGED <<durable, flock, moves>>

OpenCanonical(p) ==
  /\ Plain(p, "canon")
  /\ Become(p, IF PathInode[Depth] = Unlinked THEN LockRefused(tries[p], "Native")
               ELSE [tries[p] EXCEPT !.pc = "lock",
                       !.walk = [k \in 1..(Depth + 1) |-> PathInode[k - 1]]])
  /\ UNCHANGED <<named, durable, flock, moves>>

\* The lock is opened by its path, and created when the name is free.
OpenOrCreateLock(p) ==
  /\ Plain(p, "lock")
  /\ LET d == PathInode[Depth] IN
       \/ /\ d = Unlinked
          /\ Become(p, LockRefused(tries[p], "Native"))
          /\ UNCHANGED named
       \/ /\ d # Unlinked /\ PathInode[Depth + 1] = Unlinked
          /\ MakeEntry(d)
          /\ Become(p, [tries[p] EXCEPT !.pc = "locked", !.lock = FreshInode])
       \/ /\ d # Unlinked /\ PathInode[Depth + 1] # Unlinked
          /\ Become(p, [tries[p] EXCEPT !.pc = "locked", !.lock = PathInode[Depth + 1]])
          /\ UNCHANGED named
  /\ UNCHANGED <<durable, flock, moves>>

TryLock(p) ==
  /\ Plain(p, "locked")
  /\ IF Links(tries[p].lock) # 1
     THEN Become(p, LockRefused(tries[p], "Identity")) /\ UNCHANGED flock
     ELSE TakeLock(tries[p], p)
  /\ UNCHANGED <<named, durable, moves>>

-----------------------------------------------------------------------------
(* Validation: the directory's identity by its path, then the lock's.      *)

SameDirectory(t) == PathInode[Depth] # Unlinked /\ PathInode[Depth] = t.walk[Depth + 1]
SameLock(t) == SameDirectory(t) /\ PathInode[Depth + 1] = t.lock
Validates(t) == SameDirectory(t) /\ SameLock(t)

\* `acquire' ends with it; an owner, or a directory handle, asks for it again.
ValidateDirectory(p) ==
  /\ Plain(p, "rewalk") \/ Try(p, "owner")
  /\ Become(p, IF SameDirectory(tries[p]) THEN [tries[p] EXCEPT !.pc = "checked"]
               ELSE IF Plain(p, "rewalk") THEN LockRefused(tries[p], "Identity")
               ELSE [tries[p] EXCEPT !.pc = "stale"])
  /\ UNCHANGED <<named, durable, flock, moves>>

ValidateLock(p) ==
  /\ Try(p, "checked")
  /\ Become(p, IF PathInode[Depth + 1] = tries[p].lock THEN [tries[p] EXCEPT !.pc = "owner"]
               ELSE [tries[p] EXCEPT !.pc = "stale"])
  /\ UNCHANGED <<named, durable, flock, moves>>

-----------------------------------------------------------------------------
(* The end of custody, the clock and the operator.                         *)

\* Dropping a refusal or the last Arc of an owner closes the locked file; a
\* process that dies does the same at any time.
Release(p) ==
  /\ tries[p].pc # "gone"
  /\ Become(p, [tries[p] EXCEPT !.pc = "gone"])
  /\ flock' = [i \in {l \in DOMAIN flock : flock[l] # p} |-> flock[i]]
  /\ UNCHANGED <<named, durable, moves>>

PassDeadline(p) ==
  /\ tries[p].api = "acquire_until" /\ ~tries[p].late
  /\ tries[p].pc \in DOMAIN Fee \cup {"settle", "sync"}
  /\ Become(p, [tries[p] EXCEPT !.late = TRUE])
  /\ UNCHANGED <<named, durable, flock, moves>>

\* An operator moves a component out of its place, or removes the lock file.
MoveAside ==
  /\ moves < MaxMoves /\ moves' = moves + 1
  /\ \E d \in DOMAIN named : named[d] # Unlinked /\ named' = [named EXCEPT ![d] = Unlinked]
  /\ UNCHANGED <<durable, flock, tries>>

AcquireUntil(p) ==
  \/ PrepareAcquire(p) \/ StatComponent(p) \/ OpenComponent(p) \/ CreateDirectory(p)
  \/ ReopenDirectory(p) \/ SettleOpen(p) \/ SettleLockSync(p) \/ CreateLock(p) \/ OpenLock(p)
  \/ StatLock(p) \/ AdvisoryLock(p) \/ RewalkOpen(p) \/ RewalkCompare(p) \/ CompareLock(p)
  \/ ReturnOwner(p) \/ RefuseLate(p) \/ RefuseCapacity(p)
Acquire(p) ==
  \/ CreateMissing(p) \/ OpenCanonical(p) \/ OpenOrCreateLock(p) \/ TryLock(p)

LockNext ==
  \/ \E p \in LockProcs :
       AcquireUntil(p) \/ Acquire(p) \/ ValidateDirectory(p) \/ ValidateLock(p)
         \/ Release(p) \/ PassDeadline(p)
  \/ MoveAside

LockSpec == LockInit /\ [][LockNext]_lockVars

-----------------------------------------------------------------------------
(* Properties.                                                             *)

Owns(p) == tries[p].pc \in {"completed", "owner", "checked"}

\* However the acquisitions interleave, and whatever the operator moved, at most
\* one process has a custody that `validate_directory' would accept: an owner
\* whose directory or lock file was replaced does not validate beside the new one.
OneValidOwner ==
  \A p, q \in LockProcs :
    Owns(p) /\ Owns(q) /\ Validates(tries[p]) /\ Validates(tries[q]) => p = q

\* A bounded acquisition that returned, with an owner or a refusal, has synced the
\* parent of every component and lock file it created, although the deadline may
\* have passed between the creation and the sync.
CreationsSettled ==
  \A p \in LockProcs :
    tries[p].pc \in {"owner", "failed"} =>
      \A e \in tries[p].made : e \in durable \/ named[e[1]] # e[2]

\* Racing processes do each other no harm but to win: while nobody moves anything
\* and no deadline passes, an acquisition is refused only because another process
\* holds the lock, or by its own limit on created directories - not by a component
\* that appears under it, nor by the fees it paid in advance.
RefusedOnlyByOwner ==
  moves = 0 => \A p \in LockProcs :
    tries[p].pc = "failed" /\ ~tries[p].late =>
      tries[p].why = "Contended" \/ (tries[p].why = "Capacity" /\ tries[p].creations = MaxCreated)


=============================================================================
