---------------------------- MODULE NodeIdentity ----------------------------
(***************************************************************************)
(* The stable broker identity of a data directory (open_node_identity in    *)
(* crates/shard-stream-runtime).  A process reads node.identity, writes the *)
(* next incarnation to a temporary of its own, syncs it, renames it over    *)
(* the file, syncs the directory and only then opens the engine, which      *)
(* takes the directory's lock.  Processes and the machine may stop between  *)
(* any two steps.                                                           *)
(***************************************************************************)
EXTENDS Naturals

CONSTANTS
    Processes,          \* processes that open the runtime
    MaxIncarnation,     \* u64::MAX of the model
    MaxPowerCuts        \* bound on the crashes of the machine

ASSUME IdentityAssumption == {MaxIncarnation, MaxPowerCuts} \subseteq Nat

(* Incarnation 0 stands for a directory without node.identity. *)
VARIABLES
    identityNamed,      \* incarnation node.identity shows
    onDisk,     \* incarnation a power cut may leave instead, beside identityNamed
    opener,     \* [Processes -> [at, mine]]
    locked,     \* processes whose engine is open (the directory lock admits one)
    newest,     \* history: the largest incarnation a successful open had
    repeated,   \* history: a successful open had an incarnation not above newest
    overlapped, \* history: some process read the file while another was opening
    powerCuts

identityVars == <<identityNamed, onDisk, opener, locked, newest, repeated, overlapped, powerCuts>>

Away == [at |-> "away", mine |-> 0]

IdentityInit ==
    /\ identityNamed = 0 /\ onDisk = 0
    /\ opener = [p \in Processes |-> Away]
    /\ locked = {} /\ newest = 0 /\ repeated = FALSE /\ overlapped = FALSE /\ powerCuts = 0

(* open_node_identity up to the write: read, check, add one.  An identity   *)
(* that would pass u64::MAX refuses the open.                               *)
ReadIdentity(p) ==
    /\ opener[p].at = "away"
    /\ identityNamed < MaxIncarnation
    /\ opener' = [opener EXCEPT ![p] = [at |-> "write", mine |-> identityNamed + 1]]
    /\ overlapped' = (overlapped \/ \E q \in Processes \ {p} : opener[q].at \notin {"away", "open"})
    /\ UNCHANGED <<identityNamed, onDisk, locked, newest, repeated, powerCuts>>

(* write_node_identity: the synced temporary is renamed over the file. *)
RenameIdentity(p) ==
    /\ opener[p].at = "write"
    /\ identityNamed' = opener[p].mine
    /\ opener' = [opener EXCEPT ![p].at = "sync"]
    /\ UNCHANGED <<onDisk, locked, newest, repeated, overlapped, powerCuts>>

(* Mutant: the directory is not synced after the rename. *)
SyncIdentitySkipped(p) ==
    /\ opener[p].at = "sync"
    /\ opener' = [opener EXCEPT ![p].at = "engine"]
    /\ UNCHANGED <<identityNamed, onDisk, locked, newest, repeated, overlapped, powerCuts>>

(* Its last call: the directory is synced. *)
SyncIdentity(p) ==
    /\ opener[p].at = "sync"
    /\ onDisk' = identityNamed
    /\ opener' = [opener EXCEPT ![p].at = "engine"]
    /\ UNCHANGED <<identityNamed, locked, newest, repeated, overlapped, powerCuts>>

(* EmbeddedRuntimeBuilder::open goes on to the engine; another owner of the *)
(* directory refuses it.                                                    *)
OpenEngine(p) ==
    /\ opener[p].at = "engine"
    /\ IF locked = {}
       THEN /\ locked' = {p}
            /\ repeated' = (repeated \/ opener[p].mine <= newest)
            /\ newest' = IF opener[p].mine > newest THEN opener[p].mine ELSE newest
            /\ opener' = [opener EXCEPT ![p].at = "open"]
       ELSE opener' = [opener EXCEPT ![p] = Away] /\ UNCHANGED <<locked, newest, repeated>>
    /\ UNCHANGED <<identityNamed, onDisk, overlapped, powerCuts>>

(* The process stops, by closing its runtime or in the middle of opening. *)
StopProcess(p) ==
    /\ opener[p].at # "away"
    /\ opener' = [opener EXCEPT ![p] = Away]
    /\ locked' = locked \ {p}
    /\ UNCHANGED <<identityNamed, onDisk, newest, repeated, overlapped, powerCuts>>

(* A power cut ends every process; an unsynced rename may be undone. *)
PowerCut ==
    /\ powerCuts < MaxPowerCuts
    /\ powerCuts' = powerCuts + 1
    /\ opener' = [p \in Processes |-> Away]
    /\ locked' = {}
    /\ \E kept \in {identityNamed, onDisk} : identityNamed' = kept /\ onDisk' = kept
    /\ UNCHANGED <<newest, repeated, overlapped>>

IdentityNext ==
    \/ \E p \in Processes :
        \/ ReadIdentity(p) \/ RenameIdentity(p) \/ SyncIdentity(p)
        \/ OpenEngine(p) \/ StopProcess(p)
    \/ PowerCut

IdentitySpec == IdentityInit /\ [][IdentityNext]_identityVars

-----------------------------------------------------------------------------
(* Unless two processes opened the directory at once, every successful open *)
(* has a larger incarnation than all the ones before it, through stops at   *)
(* any step and power cuts.  (With two at once it can repeat one: the file  *)
(* is read and written before the directory lock is taken.)                 *)
IncarnationsGrow == overlapped \/ ~repeated

=============================================================================
