------------------------------ MODULE MCStorage ------------------------------
(***************************************************************************)
(* Small instances of what lies between the engine and the disk.  A        *)
(* behaviour follows one part of it, the subject.                          *)
(***************************************************************************)
EXTENDS PinnedLog, DirectoryLock, OwnedFiles, OwnedShardLog, NodeIdentity,
        AppendMap, ObjectTier, JournalFile

VARIABLE subject

mcVars == <<subject, pinVars, lockVars, fileVars, ownedVars, identityVars,
            appendMapVars, tierVars, journalVars>>

\* Two keys of one hash and a third.
Hashes == [k \in {"x", "y", "z"} |-> IF k = "z" THEN 2 ELSE 1]

\* Two sealed packs; the first holds offsets on both sides of the second's.
SealedPacks == <<{<<0, 0>>, <<3, 3>>}, {<<1, 1>>}>>

\* A creation, an update that depends on it, the commit of a batch and a checkpoint.
Event(kind, shards, expected, gen, rf, isr, start, next, batch, placement) ==
  [kind |-> kind, shards |-> shards, expected |-> expected, gen |-> gen, rf |-> rf, isr |-> isr,
   start |-> start, next |-> next, batch |-> batch, placement |-> placement]
ControlEvents ==
  {Event("create", <<1, 2>>, 0, 1, 2, 1, 0, 0, 0, 0),
   Event("update", << >>, 1, 1, 2, 1, 0, 0, 0, 0),
   Event("commit", << >>, 0, 0, 0, 0, 0, 0, 0, 0),
   Event("checkpoint", << >>, 0, 0, 0, 0, 1, 2, 2, 2)}

Subjects == {"pinned", "lock", "files", "owned", "identity", "dense", "sparse", "tier", "journal"}

MCInit ==
  /\ subject \in Subjects
  /\ PinnedInit /\ LockInit /\ FilesInit /\ OwnedInit /\ IdentityInit
  /\ SegmentInit /\ slots = {} /\ TierInit /\ JournalInit
  /\ subject # "dense" => firstKey = 0
  /\ subject # "lock" => \A p \in LockProcs : tries[p] = FreshTry("acquire")
  /\ tries[2].api = "acquire" => tries[1].api = "acquire"    \* the processes are alike
  /\ subject # "files" => \A j \in FileJobs : jobs[j].kind = "replace"

\* The step A of one part leaves the others alone.
Pinned(A) == subject = "pinned" /\ A /\ UNCHANGED <<subject, lockVars, fileVars, ownedVars,
               identityVars, appendMapVars, tierVars, journalVars>>
Locks(A) == subject = "lock" /\ A /\ UNCHANGED <<subject, pinVars, fileVars, ownedVars,
               identityVars, appendMapVars, tierVars, journalVars>>
Files(A) == subject = "files" /\ A /\ UNCHANGED <<subject, pinVars, lockVars, ownedVars,
               identityVars, appendMapVars, tierVars, journalVars>>
Owned(A) == subject = "owned" /\ A /\ UNCHANGED <<subject, pinVars, lockVars, fileVars,
               identityVars, appendMapVars, tierVars, journalVars>>
Identity(A) == subject = "identity" /\ A /\ UNCHANGED <<subject, pinVars, lockVars, fileVars,
               ownedVars, appendMapVars, tierVars, journalVars>>
Maps(map, A) == subject = map /\ A /\ UNCHANGED <<subject, pinVars, lockVars, fileVars,
               ownedVars, identityVars, tierVars, journalVars>>
Tier(A) == subject = "tier" /\ A /\ UNCHANGED <<subject, pinVars, lockVars, fileVars,
               ownedVars, identityVars, appendMapVars, journalVars>>
Journal(A) == subject = "journal" /\ A /\ UNCHANGED <<subject, pinVars, lockVars, fileVars,
               ownedVars, identityVars, appendMapVars, tierVars>>

\* The operator moves things under an unbounded acquisition.
MovesMatter == (\A p \in LockProcs : tries[p].api = "acquire_until") => UNCHANGED moves
FourCalls == SumFunction(callsBegun') <= 4

MCNext ==
  \/ Pinned(PinnedNext)
  \/ Locks(LockNext /\ MovesMatter)
  \/ Files(FilesNext)
  \/ Owned(OwnedNext /\ FourCalls)
  \/ Identity(IdentityNext)
  \/ Maps("dense", SegmentNext /\ UNCHANGED slots)
  \/ Maps("sparse", AppendMapNext)
  \/ Tier(TierNext)
  \/ Journal(JournalNext)

MCSpec == MCInit /\ [][MCNext]_mcVars

\* Every reader of an ordered map tells the same story: the walks and the search of
\* the dense map agree with its lookups (WalksAgree), and the hash table over it
\* finds every key at its one entry (SparseExact).
ReadersAgree ==
  /\ subject \in {"dense", "sparse"} => WalksAgree
  /\ subject = "sparse" => SparseExact
=============================================================================
