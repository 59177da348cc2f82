--------------------------- MODULE OwnedShardLog ---------------------------
(***************************************************************************)
(* Core's owner of one native shard, and the consuming calls that turn it  *)
(* from an acquired guard into a pinned directory, an open store and a     *)
(* canonical log, and that append to, seal, collect, compact and read it.  *)
(* Every call takes the whole owner by value, works under budgets that it  *)
(* shares with the calls on the other shards, asks the composing owner's   *)
(* `checks` before and after every phase, and gives back either the owner  *)
(* or an error that holds everything the call had in its hands.            *)
(*                                                                         *)
(* A call is its list of phases, Program(kind), and the phase it is at.    *)
(* `checks.check` and `checks.deny` are the composing owner's code: either *)
(* may unwind, and each unwinding is caught where the source catches it.   *)
(* What the native calls do on disk is PinnedLog's; here they succeed or   *)
(* fail, and a failing one has denied the budgets and told the owner       *)
(* before it returns.                                                      *)
(***************************************************************************)
EXTENDS Integers, FiniteSets, Sequences

CONSTANTS
  OwnedShards,     \* the shards opened side by side under the same budgets
  MaxOwnedCalls,   \* bound: calls on one shard
  MaxOwnedFaults   \* bound: refusals, failures and unwindings injected

ASSUME OwnedAssumption ==
  /\ IsFiniteSet(OwnedShards) /\ OwnedShards # {}
  /\ MaxOwnedCalls \in Nat /\ MaxOwnedFaults \in Nat

VARIABLES
  ownerStage,  \* by shard: what its owner is (guard, directory, store, log), or "error"
  call,        \* by shard: the call running on it
  callsBegun,  \* by shard: calls begun
  nativeAt,    \* by shard: the places that hold the shard's native value
  closed,      \* the budgets that refuse every later phase
  ownedLate,   \* the original deadline has passed
  toldOwner,   \* by shard: times its calls told the composing owner that they refused
  refusals,    \* by shard: calls, of those that tell the owner, that ended in an error
  ownedFaults

ownedVars == <<ownerStage, call, callsBegun, nativeAt, closed, ownedLate, toldOwner, refusals,
               ownedFaults>>

-----------------------------------------------------------------------------
(* The phases of each call, in order. *)

PinProgram ==
  <<"admit", "check", "validate", "check", "clone", "check", "native", "check", "judge",
    "validate", "check">>

OpenProgram ==
  <<"check", "validate", "check", "native", "check", "judge", "validate", "check">>

GcProgram ==
  <<"admit", "check", "validate", "check", "borrow", "check", "native", "check", "judge",
    "validate", "check">>

AppendProgram ==
  <<"admit", "check", "measure", "check", "validate", "check", "borrow", "check", "native",
    "check", "judge", "validate", "check">>

RetainPhases == <<"check", "fee", "check", "retain", "check">>

ConvertProgram ==
  <<"cap", "check", "fee", "check", "split", "check">> \o RetainPhases
    \o <<"check", "validated", "check", "check", "native", "check", "judge">> \o RetainPhases
    \o <<"check", "validated", "check", "usage", "check">>

\* prepare: nothing of the owner is taken apart before the fixed fee is paid.
PrepareRead == <<"cap", "check", "fee", "check", "split", "check">>

PrepareMutation == <<"cap", "check", "append_open", "fee", "check", "split", "check">>

ReadProgram ==
  RetainPhases \o <<"check", "validated", "check", "borrow", "check", "native", "check", "judge">>
    \o RetainPhases \o <<"check", "validated", "check", "usage", "check">>

MutationProgram ==
  RetainPhases \o <<"check", "validated", "check", "borrow", "check", "native", "check", "judge">>
    \o RetainPhases \o <<"check", "validated", "check", "usage", "check">>

StoreCalls == {"append", "seal", "gc"}
Mutations == {"log_append", "log_seal", "compact"}
LogCalls == Mutations \cup {"read"}
TwoBudgets == LogCalls \cup {"convert"}

Program(kind) ==
  CASE kind = "pin" -> PinProgram
    [] kind = "open" -> <<"admit">> \o OpenProgram
    [] kind = "gc" -> GcProgram
    [] kind \in {"append", "seal"} -> AppendProgram
    [] kind = "convert" -> ConvertProgram
    [] kind = "read" -> PrepareRead \o ReadProgram
    [] OTHER -> PrepareMutation \o MutationProgram

\* The calls an owner of each kind offers, and what a completed call leaves.
Offers(st) ==
  CASE st = "guard" -> {"pin"}
    [] st = "directory" -> {"open"}
    [] st = "store" -> StoreCalls \cup {"convert"}
    [] st = "log" -> LogCalls
    [] OTHER -> {}

Leaves(kind) ==
  CASE kind = "pin" -> "directory"
    [] kind \in StoreCalls \cup {"open"} -> "store"
    [] OTHER -> "log"

NoCall == [kind |-> "none", at |-> 0, failed |-> FALSE, native |-> "none", checked |-> 0,
           pending |-> FALSE, pin |-> FALSE, outer |-> FALSE, settled |-> TRUE]

NewCall(kind) == [NoCall EXCEPT !.kind = kind, !.at = 1]

OwnedInit ==
  /\ ownerStage = [s \in OwnedShards |-> "guard"]
  /\ call = [s \in OwnedShards |-> NoCall]
  /\ callsBegun = [s \in OwnedShards |-> 0]
  /\ nativeAt = [s \in OwnedShards |-> {"owner"}]
  /\ closed = {}
  /\ ownedLate = FALSE
  /\ toldOwner = [s \in OwnedShards |-> 0]
  /\ refusals = [s \in OwnedShards |-> 0]
  /\ ownedFaults = 0

-----------------------------------------------------------------------------
(* The budgets of a call and their denial. *)

CallKind(s) == call[s].kind
CallPhase(s) == Program(CallKind(s))[call[s].at]
CallRunning(s) == CallKind(s) # "none" /\ ~call[s].failed /\ call[s].at <= Len(Program(CallKind(s)))
AtPhase(s, phase) == CallRunning(s) /\ CallPhase(s) = phase

\* The append budget of a log mutation is its caller's own.
CoreBudget == <<"core">>
FetchBudget == <<"fetch">>
AppendBudget(s) == <<"append", s>>
CallBudgets(s) ==
  {CoreBudget} \cup (IF CallKind(s) \in TwoBudgets THEN {FetchBudget} ELSE {})
           \cup (IF CallKind(s) \in Mutations THEN {AppendBudget(s)} ELSE {})

\* The budgets a checkpoint asks: not the append budget, which is asked once
\* in prepare and then by the native writer.
CheckedBudgets(s) == CallBudgets(s) \ {AppendBudget(s)}
CallAdmitted(s) == ~ownedLate /\ CheckedBudgets(s) \cap closed = {}

OwnedFault == ownedFaults < MaxOwnedFaults /\ ownedFaults' = ownedFaults + 1
NoOwnedFault == UNCHANGED ownedFaults

\* Mutant: the attempt is recorded only when telling the owner returned.
OuterIfReturned(c) == [c EXCEPT !.outer = @]

\* The composing owner is told at most once by a call, whether or not telling
\* it unwinds: the attempt is recorded before it is made.
Outer(c) == [c EXCEPT !.outer = TRUE]

TellOuter(s) ==
  toldOwner' = IF call[s].outer \/ CallKind(s) = "pin" THEN toldOwner
          ELSE [toldOwner EXCEPT ![s] = @ + 1]


\* Work::deny_bridge and Checks::deny: the budgets first, then the owner.
DenyCall(s) ==
  /\ closed' = closed \cup CallBudgets(s)
  /\ TellOuter(s)
  /\ call' = [call EXCEPT ![s] = [Outer(call[s]) EXCEPT !.failed = TRUE,
                                                                 !.settled = TRUE]]

SameOwned == UNCHANGED <<ownerStage, callsBegun, ownedLate, refusals>>

\* A phase that fails leaves the call to be denied, with all it holds.
StopCall(s) ==
  /\ call' = [call EXCEPT ![s].failed = TRUE, ![s].settled = FALSE]
  /\ UNCHANGED <<nativeAt, closed, toldOwner>> /\ SameOwned

NextPhase(s, c) ==
  /\ call' = [call EXCEPT ![s] = [c EXCEPT !.at = @ + 1]]
  /\ UNCHANGED <<closed, toldOwner>> /\ SameOwned

-----------------------------------------------------------------------------
(* The phases. *)

BeginCall(s, kind) ==
  /\ CallKind(s) = "none" /\ nativeAt[s] = {"owner"} /\ callsBegun[s] < MaxOwnedCalls
  /\ callsBegun' = [callsBegun EXCEPT ![s] = @ + 1]
  /\ kind \in Offers(ownerStage[s])
  /\ call' = [call EXCEPT ![s] = NewCall(kind)]
  /\ nativeAt' = [nativeAt EXCEPT ![s] = {"early"}]
  /\ NoOwnedFault /\ UNCHANGED <<closed, toldOwner, ownerStage, ownedLate, refusals>>

\* The whole declared cost is charged once; a charge above the limit denies.
\* A refusal here is answered at once: the input has not been entered.
AdmitCall(s) ==
  /\ AtPhase(s, "admit")
  /\ \/ CallAdmitted(s) /\ NoOwnedFault /\ NextPhase(s, call[s]) /\ UNCHANGED nativeAt
     \/ /\ IF CallAdmitted(s) THEN OwnedFault ELSE NoOwnedFault
        /\ DenyCall(s) /\ UNCHANGED nativeAt /\ SameOwned

\* The native deadline caps the core's; a core budget already denied or late refuses.
CapExpiry(s) ==
  /\ AtPhase(s, "cap")
  /\ NoOwnedFault
  /\ IF ownedLate \/ CoreBudget \in closed THEN StopCall(s)
     ELSE NextPhase(s, call[s]) /\ UNCHANGED nativeAt

\* A checkpoint: the budgets, the composing owner, the budgets again. The
\* owner's own check may refuse or unwind.
CheckPhase(s) ==
  /\ AtPhase(s, "check")
  /\ \/ CallAdmitted(s) /\ NoOwnedFault /\ NextPhase(s, call[s]) /\ UNCHANGED nativeAt
     \/ /\ IF CallAdmitted(s) THEN CallKind(s) # "pin" /\ OwnedFault ELSE NoOwnedFault
        /\ StopCall(s)

\* The caller's append budget, refused by an earlier mutation, is not used again.
AppendOpen(s) ==
  /\ AtPhase(s, "append_open")
  /\ NoOwnedFault
  /\ IF AppendBudget(s) \in closed THEN StopCall(s)
     ELSE NextPhase(s, call[s]) /\ UNCHANGED nativeAt

\* A fee that does not fit denies the core budget itself.
FeePhase(s) ==
  /\ AtPhase(s, "fee")
  /\ \/ CallAdmitted(s) /\ NoOwnedFault /\ NextPhase(s, call[s]) /\ UNCHANGED nativeAt
     \/ ~CallAdmitted(s) /\ NoOwnedFault /\ StopCall(s)
     \/ /\ CallAdmitted(s) /\ OwnedFault
        /\ closed' = closed \cup {CoreBudget}
        /\ call' = [call EXCEPT ![s].failed = TRUE, ![s].settled = FALSE]
        /\ UNCHANGED <<nativeAt, toldOwner>> /\ SameOwned

\* The owner is taken apart: its native value apart, its directory kept last.
SplitOwner(s) ==
  /\ AtPhase(s, "split")
  /\ nativeAt' = [nativeAt EXCEPT ![s] = (@ \ {"early"}) \cup {"remaining"}]
  /\ NoOwnedFault /\ NextPhase(s, call[s])

RetainParent(s) ==
  /\ AtPhase(s, "retain")
  /\ NoOwnedFault /\ NextPhase(s, [call[s] EXCEPT !.pending = TRUE]) /\ UNCHANGED nativeAt

\* Validation of the parent by a store's call: a failure denies the core budget.
ValidateParent(s) ==
  /\ AtPhase(s, "validate")
  /\ UNCHANGED nativeAt
  /\ \/ CallAdmitted(s) /\ NoOwnedFault /\ NextPhase(s, [call[s] EXCEPT !.checked = @ + 1])
     \/ /\ IF CallAdmitted(s) THEN OwnedFault ELSE NoOwnedFault
        /\ closed' = closed \cup {CoreBudget}
        /\ call' = [call EXCEPT ![s].failed = TRUE, ![s].settled = FALSE]
        /\ UNCHANGED toldOwner /\ SameOwned

\* Validation by a log's call consumes the retained parent; it denies both
\* budgets, then the append budget, and tells the owner, before it returns.
ValidateChecked(s) ==
  /\ AtPhase(s, "validated") /\ call[s].pending
  /\ UNCHANGED nativeAt
  /\ \/ /\ CallAdmitted(s) /\ NoOwnedFault
        /\ NextPhase(s, [call[s] EXCEPT !.checked = @ + 1, !.pending = FALSE])
     \/ /\ IF CallAdmitted(s) THEN OwnedFault ELSE NoOwnedFault
        /\ closed' = closed \cup CallBudgets(s)
        /\ TellOuter(s)
        /\ call' = [call EXCEPT ![s] = [Outer(call[s]) EXCEPT
                                          !.failed = TRUE, !.settled = FALSE, !.pending = FALSE]]
        /\ SameOwned

CloneDescriptor(s) ==
  /\ AtPhase(s, "clone")
  /\ \/ NoOwnedFault /\ NextPhase(s, call[s]) /\ UNCHANGED nativeAt
     \/ OwnedFault /\ StopCall(s)

\* The payloads of an append are added up against the native limit.
MeasureInputs(s) ==
  /\ AtPhase(s, "measure")
  /\ \/ CallAdmitted(s) /\ NoOwnedFault /\ NextPhase(s, call[s]) /\ UNCHANGED nativeAt
     \/ /\ IF CallAdmitted(s) THEN CallKind(s) = "append" /\ OwnedFault ELSE NoOwnedFault
        /\ StopCall(s)

\* Only the call that has the owner can try the pin's lock.
BorrowPin(s) ==
  /\ AtPhase(s, "borrow")
  /\ NoOwnedFault /\ NextPhase(s, [call[s] EXCEPT !.pin = TRUE]) /\ UNCHANGED nativeAt

\* Mutant: the native call's answer is not kept when it is a refusal.
NativeCallDropped(s) ==
  /\ AtPhase(s, "native")
  /\ \/ /\ CallAdmitted(s) /\ NoOwnedFault /\ NextPhase(s, [call[s] EXCEPT !.native = "ok"])
        /\ nativeAt' = [nativeAt EXCEPT ![s] = (@ \ {"early", "remaining"}) \cup {"result"}]
     \/ /\ IF CallAdmitted(s) THEN OwnedFault ELSE NoOwnedFault
        /\ nativeAt' = [nativeAt EXCEPT ![s] = @ \ {"early", "remaining"}]
        /\ closed' = closed \cup CallBudgets(s)
        /\ TellOuter(s)
        /\ call' = [call EXCEPT ![s] = [Outer(call[s]) EXCEPT
                                          !.native = "err", !.at = @ + 1]]
        /\ SameOwned

\* The native call takes the native value and gives back one of its own.
\* A failing one has denied its budgets and told the owner before its settlement.
NativeCall(s) ==
  /\ AtPhase(s, "native")
  /\ nativeAt' = [nativeAt EXCEPT ![s] = (@ \ {"early", "remaining"}) \cup {"result"}]
  /\ \/ CallAdmitted(s) /\ NoOwnedFault /\ NextPhase(s, [call[s] EXCEPT !.native = "ok"])
     \/ /\ IF CallAdmitted(s) THEN OwnedFault ELSE NoOwnedFault
        /\ closed' = closed \cup (IF CallKind(s) = "pin" THEN {} ELSE CallBudgets(s))
        /\ TellOuter(s)
        /\ call' = [call EXCEPT ![s] = [(IF CallKind(s) = "pin" THEN call[s]
                                         ELSE Outer(call[s])) EXCEPT
                                          !.native = "err", !.at = @ + 1]]
        /\ SameOwned

JudgeNative(s) ==
  /\ AtPhase(s, "judge")
  /\ NoOwnedFault
  /\ IF call[s].native = "ok" THEN NextPhase(s, call[s]) /\ UNCHANGED nativeAt ELSE StopCall(s)

UsagePhase(s) ==
  /\ AtPhase(s, "usage")
  /\ NoOwnedFault /\ NextPhase(s, call[s]) /\ UNCHANGED nativeAt

\* All phases passed: the native value goes back into an owner.
CompleteCall(s) ==
  /\ CallKind(s) # "none" /\ ~call[s].failed /\ call[s].at > Len(Program(CallKind(s)))
  /\ ownerStage' = [ownerStage EXCEPT ![s] = Leaves(CallKind(s))]
  /\ nativeAt' = [nativeAt EXCEPT ![s] = (@ \ {"result"}) \cup {"owner"}]
  /\ call' = [call EXCEPT ![s] = NoCall]
  /\ NoOwnedFault /\ UNCHANGED <<callsBegun, closed, ownedLate, toldOwner, refusals>>

\* A failed call denies while it still holds the pin...
DenyBridge(s) ==
  /\ call[s].failed /\ ~call[s].settled
  /\ DenyCall(s)
  /\ NoOwnedFault /\ UNCHANGED nativeAt /\ SameOwned

\* Mutant: the error is returned as soon as the phase failed.
ReturnErrorUndenied(s) ==
  /\ call[s].failed
  /\ ownerStage' = [ownerStage EXCEPT ![s] = "error"]
  /\ call' = [call EXCEPT ![s] = NoCall]
  /\ refusals' = [refusals EXCEPT ![s] = @ + (IF CallKind(s) = "pin" THEN 0 ELSE 1)]
  /\ NoOwnedFault /\ UNCHANGED <<callsBegun, nativeAt, closed, ownedLate, toldOwner>>

\* ... and then gives the pin back and returns its error with all it holds.
ReturnError(s) ==
  /\ call[s].failed /\ call[s].settled
  /\ ownerStage' = [ownerStage EXCEPT ![s] = "error"]
  /\ call' = [call EXCEPT ![s] = NoCall]
  /\ refusals' = [refusals EXCEPT ![s] = @ + (IF CallKind(s) = "pin" THEN 0 ELSE 1)]
  /\ NoOwnedFault /\ UNCHANGED <<callsBegun, nativeAt, closed, ownedLate, toldOwner>>

PassExpiry ==
  /\ ~ownedLate /\ OwnedFault
  /\ ownedLate' = TRUE
  /\ UNCHANGED <<ownerStage, call, callsBegun, nativeAt, closed, toldOwner, refusals>>

OwnedStep(s) ==
  \/ \E kind \in Offers(ownerStage[s]) : BeginCall(s, kind)
  \/ AdmitCall(s) \/ CapExpiry(s) \/ CheckPhase(s) \/ AppendOpen(s) \/ FeePhase(s)
  \/ SplitOwner(s) \/ RetainParent(s) \/ ValidateParent(s) \/ ValidateChecked(s)
  \/ CloneDescriptor(s) \/ MeasureInputs(s) \/ BorrowPin(s) \/ NativeCall(s) \/ JudgeNative(s)
  \/ UsagePhase(s) \/ CompleteCall(s) \/ DenyBridge(s) \/ ReturnError(s)

OwnedNext == (\E s \in OwnedShards : OwnedStep(s)) \/ PassExpiry

OwnedSpec == OwnedInit /\ [][OwnedNext]_ownedVars

-----------------------------------------------------------------------------
(* Properties. *)

\* A call that ends in an error has told the composing owner exactly once,
\* whichever phase failed, whether the native call had told it already and
\* whether or not telling it unwound; a call that ended well never did. And
\* the owner is told only after every budget of the call refuses, so nothing
\* it does in answer can let a sibling start.
RefusalTold ==
  \A s \in OwnedShards :
    /\ CallKind(s) = "none" => toldOwner[s] = refusals[s]
    /\ call[s].outer => CallBudgets(s) \subseteq closed
    /\ toldOwner[s] <= refusals[s] + (IF CallKind(s) = "none" THEN 0 ELSE 1)

\* The native value of a shard - the locks and descriptors with it - is always
\* in exactly one place: an interrupted call loses none and returns none twice,
\* and a late success is kept inside the error, never as an owner.
OneCustodian ==
  \A s \in OwnedShards :
    /\ Cardinality(nativeAt[s]) = 1
    /\ CallKind(s) = "none" => (nativeAt[s] = {"owner"}) = (ownerStage[s] # "error")

\* Once the shared budget refuses, no native call on any shard succeeds, not
\* even one whose last checkpoint was before the refusal.
NothingAfterDenial ==
  [][ (CoreBudget \in closed \/ ownedLate) =>
        \A s \in OwnedShards : call'[s].native = "ok" => call[s].native = "ok" ]_ownedVars


=============================================================================
