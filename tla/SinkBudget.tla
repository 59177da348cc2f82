----------------------------- MODULE SinkBudget -----------------------------
(***************************************************************************)
(* The lag budget of the durable sink (`Budget` of durable_sink.rs) at the  *)
(* granularity of its atomics: a bound on the items and the bytes that are *)
(* queued for the sink, taken by two separate compare-and-set loops and    *)
(* given back by two separate subtractions, with a mutex and a condition   *)
(* variable for the callers that wait.  The atomics are sequentially       *)
(* consistent here: every one of them is a read-modify-write, which is how *)
(* the targets of the build order them.                                    *)
(***************************************************************************)
EXTENDS Naturals, FiniteSets

CONSTANTS
    Callers,       \* threads that call reserve
    Bytes,         \* Bytes[t]: size of the payloads caller t reserves for
    MaxItems,      \* max_pending_items
    MaxBytes,      \* max_pending_bytes
    Rounds,        \* bound: how often a caller reserves
    Availability,  \* lag_policy is Availability (FALSE: Backpressure)
    Nobody         \* the mutex is free

ASSUME SinkBudgetAssumption ==
    /\ MaxItems \in Nat \ {0} /\ MaxBytes \in Nat \ {0} /\ Rounds \in Nat
    /\ IsFiniteSet(Callers) /\ \A t \in Callers : Bytes[t] \in 0 .. MaxBytes
    /\ Availability \in BOOLEAN
    /\ Nobody \notin Callers

VARIABLES
    sbItems,     \* pending_items
    sbBytes,     \* pending_bytes
    sbWaiters,   \* waiters
    sbStopped,   \* stopped
    sbLock,      \* the holder of wait_lock
    sbAsleep,    \* callers parked on `changed`
    sbPc,        \* where each caller is
    sbRounds     \* rounds each caller has begun

sbVars == <<sbItems, sbBytes, sbWaiters, sbStopped, sbLock, sbAsleep, sbPc,
            sbRounds>>

BudgetInit ==
    /\ sbItems = 0
    /\ sbBytes = 0
    /\ sbWaiters = 0
    /\ sbStopped = FALSE
    /\ sbLock = Nobody
    /\ sbAsleep = {}
    /\ sbPc = [t \in Callers |-> "idle"]
    /\ sbRounds = [t \in Callers |-> 0]

At(t, pc) == sbPc[t] = pc

Goto(t, pc) == sbPc' = [sbPc EXCEPT ![t] = pc]

FitsBytes(t) == sbBytes + Bytes[t] <= MaxBytes

(* Condvar::notify_all: every parked caller contends for the mutex again.  *)
NotifyAll(pc) == [t \in Callers |-> IF t \in sbAsleep THEN "woken" ELSE pc[t]]

-----------------------------------------------------------------------------
(* reserve, fast path: try_reserve(bytes, false) without the mutex.  A full *)
(* or stopped budget ends an Availability reservation with no charge.      *)
TryItems(t) ==
    /\ At(t, "idle")
    /\ sbRounds[t] < Rounds
    /\ sbRounds' = [sbRounds EXCEPT ![t] = @ + 1]
    /\ IF ~sbStopped /\ sbItems < MaxItems
       THEN sbItems' = sbItems + 1 /\ Goto(t, "bytes")
       ELSE Goto(t, IF Availability THEN "idle" ELSE "slow") /\ UNCHANGED sbItems
    /\ UNCHANGED <<sbBytes, sbWaiters, sbStopped, sbLock, sbAsleep>>

(* Mutant: the item is given back without the mutex and without a notify. *)
TryBytesQuietly(t) ==
    /\ At(t, "bytes")
    /\ IF FitsBytes(t)
       THEN sbBytes' = sbBytes + Bytes[t] /\ Goto(t, "holding") /\ UNCHANGED sbItems
       ELSE Goto(t, "slow") /\ sbItems' = sbItems - 1 /\ UNCHANGED sbBytes
    /\ UNCHANGED <<sbWaiters, sbStopped, sbLock, sbAsleep, sbRounds>>

TryBytes(t) ==
    /\ At(t, "bytes")
    /\ IF FitsBytes(t)
       THEN sbBytes' = sbBytes + Bytes[t] /\ Goto(t, "holding")
       ELSE Goto(t, "giveback") /\ UNCHANGED sbBytes
    /\ UNCHANGED <<sbItems, sbWaiters, sbStopped, sbLock, sbAsleep, sbRounds>>

(* The item is given back under wait_lock, so that no waiter sleeps on it. *)
LockForGiveBack(t) ==
    /\ At(t, "giveback")
    /\ sbLock = Nobody
    /\ sbLock' = t
    /\ sbItems' = sbItems - 1
    /\ Goto(t, "gaveback")
    /\ UNCHANGED <<sbBytes, sbWaiters, sbStopped, sbAsleep, sbRounds>>

NotifyGivenBack(t) ==
    /\ At(t, "gaveback")
    /\ sbPc' = NotifyAll([sbPc EXCEPT ![t] = IF Availability THEN "idle" ELSE "slow"])
    /\ sbAsleep' = {}
    /\ sbLock' = Nobody
    /\ UNCHANGED <<sbItems, sbBytes, sbWaiters, sbStopped, sbRounds>>

-----------------------------------------------------------------------------
(* reserve, slow path, under wait_lock.                                    *)
LockToWait(t) ==
    /\ At(t, "slow")
    /\ sbLock = Nobody
    /\ sbLock' = t
    /\ sbWaiters' = sbWaiters + 1
    /\ Goto(t, "check")
    /\ UNCHANGED <<sbItems, sbBytes, sbStopped, sbAsleep, sbRounds>>

WokenLocks(t) ==
    /\ At(t, "woken")
    /\ sbLock = Nobody
    /\ sbLock' = t
    /\ Goto(t, "check")
    /\ UNCHANGED <<sbItems, sbBytes, sbWaiters, sbStopped, sbAsleep, sbRounds>>

(* The stopped test and the compare-and-set on the items.                  *)
WaiterTriesItems(t) ==
    /\ At(t, "check")
    /\ IF sbStopped
       THEN /\ sbWaiters' = sbWaiters - 1
            /\ sbLock' = Nobody
            /\ Goto(t, "idle")
            /\ UNCHANGED sbItems
       ELSE /\ IF sbItems < MaxItems
               THEN sbItems' = sbItems + 1 /\ Goto(t, "wbytes")
               ELSE Goto(t, "sleep") /\ UNCHANGED sbItems
            /\ UNCHANGED <<sbWaiters, sbLock>>
    /\ UNCHANGED <<sbBytes, sbStopped, sbAsleep, sbRounds>>

WaiterTriesBytes(t) ==
    /\ At(t, "wbytes")
    /\ IF FitsBytes(t)
       THEN /\ sbBytes' = sbBytes + Bytes[t]
            /\ sbWaiters' = sbWaiters - 1
            /\ sbLock' = Nobody
            /\ Goto(t, "holding")
            /\ UNCHANGED <<sbItems, sbAsleep>>
       ELSE /\ sbItems' = sbItems - 1
            /\ sbPc' = NotifyAll([sbPc EXCEPT ![t] = "sleep"])
            /\ sbAsleep' = {}
            /\ UNCHANGED <<sbBytes, sbWaiters, sbLock>>
    /\ UNCHANGED <<sbStopped, sbRounds>>

(* Condvar::wait parks the caller and frees the mutex in one step.         *)
Sleep(t) ==
    /\ At(t, "sleep")
    /\ sbAsleep' = sbAsleep \cup {t}
    /\ sbLock' = Nobody
    /\ Goto(t, "asleep")
    /\ UNCHANGED <<sbItems, sbBytes, sbWaiters, sbStopped, sbRounds>>

-----------------------------------------------------------------------------
(* BudgetCharge::drop -> release: items, bytes, then a look at the waiters. *)
ReleaseItem(t) ==
    /\ At(t, "holding")
    /\ sbItems' = sbItems - 1
    /\ Goto(t, "unbytes")
    /\ UNCHANGED <<sbBytes, sbWaiters, sbStopped, sbLock, sbAsleep, sbRounds>>

ReleaseBytes(t) ==
    /\ At(t, "unbytes")
    /\ sbBytes' = sbBytes - Bytes[t]
    /\ Goto(t, "look")
    /\ UNCHANGED <<sbItems, sbWaiters, sbStopped, sbLock, sbAsleep, sbRounds>>

LookForWaiters(t) ==
    /\ At(t, "look")
    /\ Goto(t, IF sbWaiters > 0 THEN "signal" ELSE "idle")
    /\ UNCHANGED <<sbItems, sbBytes, sbWaiters, sbStopped, sbLock, sbAsleep, sbRounds>>

Signal(t) ==
    /\ At(t, "signal")
    /\ sbLock = Nobody
    /\ sbPc' = NotifyAll([sbPc EXCEPT ![t] = "idle"])
    /\ sbAsleep' = {}
    /\ UNCHANGED <<sbItems, sbBytes, sbWaiters, sbStopped, sbLock, sbRounds>>

(* stop, called when the dispatcher is dropped.                            *)
StopBudget ==
    /\ ~sbStopped
    /\ sbLock = Nobody
    /\ sbStopped' = TRUE
    /\ sbPc' = NotifyAll(sbPc)
    /\ sbAsleep' = {}
    /\ UNCHANGED <<sbItems, sbBytes, sbWaiters, sbLock, sbRounds>>

CallerStep(t) ==
    \/ TryItems(t) \/ TryBytes(t) \/ LockForGiveBack(t) \/ NotifyGivenBack(t)
    \/ LockToWait(t) \/ WokenLocks(t) \/ WaiterTriesItems(t)
    \/ WaiterTriesBytes(t) \/ Sleep(t)
    \/ ReleaseItem(t) \/ ReleaseBytes(t) \/ LookForWaiters(t) \/ Signal(t)

BudgetNext == StopBudget \/ \E t \in Callers : CallerStep(t)

BudgetSpec == BudgetInit /\ [][BudgetNext]_sbVars

-----------------------------------------------------------------------------
(* A caller parked on the condition variable although its reservation      *)
(* would now succeed has a wake-up on the way: another caller is between   *)
(* its subtraction and its notify_all (release, try_reserve), or holds the *)
(* mutex or a wake-up and will look again.                                 *)
NoLostBudgetWakeup ==
    \A t \in sbAsleep :
        (sbStopped \/ (sbItems < MaxItems /\ FitsBytes(t))) =>
            \E u \in Callers : sbPc[u] \in {"unbytes", "look", "signal", "gaveback",
                                            "woken", "check", "wbytes"}

(* The budget counts exactly the items that are out, one for every caller  *)
(* between its reservation and its release, and the callers that wait; and *)
(* never more items or bytes are out than the configured limits.           *)
HasItem(t) == sbPc[t] \in {"bytes", "wbytes", "giveback", "holding"}

BudgetExact ==
    /\ sbItems = Cardinality({t \in Callers : HasItem(t)})
    /\ sbItems <= MaxItems /\ sbBytes <= MaxBytes
    /\ sbWaiters = Cardinality({t \in Callers :
          sbPc[t] \in {"check", "wbytes", "sleep", "asleep", "woken"}})

(* Every caller that reserves gets its charge or an answer: once charges   *)
(* are released nobody stays parked (reserve returns).                     *)
ReserveReturns == \A t \in Callers : []<>(sbPc[t] \in {"holding", "idle"})

(* Both: what reserve and release count is what is out, and no caller is    *)
(* left asleep beside room it could take (Budget).                         *)
ReservationsSafe == BudgetExact /\ NoLostBudgetWakeup
=============================================================================
