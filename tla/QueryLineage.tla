----------------------------- MODULE QueryLineage -----------------------------
(***************************************************************************)
(* The query-lineage source of a partition: one packed atomic word that    *)
(* mutations of the partition's lineage (ring, policy, retention, leader   *)
(* epoch, replica state) enter before their effects and leave after them,  *)
(* and that observers capture and compare.  Every load, compare-exchange   *)
(* and fetch_or is a step of its own: a mutation is entered by the         *)
(* coordinator and may be settled by an append's thread.                   *)
(*                                                                         *)
(* effects is a history variable: it counts the changes that the entered   *)
(* mutations made to the partition.  A mutation whose unit passes to its   *)
(* batch (transfer_to_batch) is one that stays entered.                    *)
(***************************************************************************)
EXTENDS Integers, FiniteSets

CONSTANTS
  Mutators,    \* threads or batches that hold a mutation
  Observers,   \* EngineQueryLineage values
  MaxActive,   \* ACTIVE_MASK
  MaxRevision, \* REVISION_MASK, in steps
  MaxEffects   \* bound on effects

ASSUME LineageAssumption ==
  /\ IsFiniteSet(Mutators)
  /\ MaxActive \in Nat \ {0} /\ MaxRevision \in Nat \ {0} /\ MaxEffects \in Nat

VARIABLES
  word,    \* [denied, revision, active]
  pc,      \* where each mutator is
  seen,    \* the word each mutator loaded
  effects,
  taken,   \* the observers that captured
  saved,   \* the word each observer saved
  savedAt  \* the effects each observer had seen

lvars == <<word, pc, seen, effects, taken, saved, savedAt>>

-----------------------------------------------------------------------------
Words == [denied : BOOLEAN, revision : 0..MaxRevision, active : 0..MaxActive]
Steps == {"idle", "beginning", "contended", "entered", "settling", "unsettled"}
Deny == word' = [word EXCEPT !.denied = TRUE]

\* begin's load.
LoadToBegin(m) ==
  /\ pc[m] = "idle"
  /\ pc' = [pc EXCEPT ![m] = "beginning"]
  /\ seen' = [seen EXCEPT ![m] = word]
  /\ UNCHANGED <<word, effects, taken, saved, savedAt>>

\* Mutants: the revision wraps; the count overflows.
ExhaustedActive(w) == w.active = MaxActive
ExhaustedRevision(w) == w.revision = MaxRevision

\* Neither field of the word can be raised.
Exhausted(w) == w.active = MaxActive \/ w.revision = MaxRevision

EnteredWord(w) == [w EXCEPT !.active = @ + 1, !.revision = (@ + 1) % (MaxRevision + 1)]

\* begin's compare-exchange: one attempt.
Begin(m) ==
  /\ pc[m] = "beginning"
  /\ IF seen[m].denied
     THEN pc' = [pc EXCEPT ![m] = "entered"] /\ UNCHANGED word
     ELSE IF Exhausted(seen[m]) \/ word # seen[m]
     THEN pc' = [pc EXCEPT ![m] = "contended"] /\ UNCHANGED word
     ELSE pc' = [pc EXCEPT ![m] = "entered"] /\ word' = EnteredWord(word)
  /\ UNCHANGED <<seen, effects, taken, saved, savedAt>>

\* begin denies observation instead.
BeginDenied(m) ==
  /\ pc[m] = "contended"
  /\ Deny
  /\ pc' = [pc EXCEPT ![m] = "entered"]
  /\ UNCHANGED <<seen, effects, taken, saved, savedAt>>

\* The entered mutation changes the partition.
Effect(m) ==
  /\ pc[m] = "entered" /\ effects < MaxEffects
  /\ effects' = effects + 1
  /\ UNCHANGED <<word, pc, seen, taken, saved, savedAt>>

\* finish's load.
LoadToFinish(m) ==
  /\ pc[m] = "entered"
  /\ pc' = [pc EXCEPT ![m] = "settling"]
  /\ seen' = [seen EXCEPT ![m] = word]
  /\ UNCHANGED <<word, effects, taken, saved, savedAt>>

\* finish's compare-exchange.
Finish(m) ==
  /\ pc[m] = "settling"
  /\ IF seen[m].denied
     THEN pc' = [pc EXCEPT ![m] = "idle"] /\ UNCHANGED word
     ELSE IF seen[m].active = 0 \/ word # seen[m]
     THEN pc' = [pc EXCEPT ![m] = "unsettled"] /\ UNCHANGED word
     ELSE pc' = [pc EXCEPT ![m] = "idle"] /\ word' = [word EXCEPT !.active = @ - 1]
  /\ UNCHANGED <<seen, effects, taken, saved, savedAt>>

FinishDenied(m) ==
  /\ pc[m] = "unsettled"
  /\ Deny
  /\ pc' = [pc EXCEPT ![m] = "idle"]
  /\ UNCHANGED <<seen, effects, taken, saved, savedAt>>

\* Mutant: an abandoned mutation leaves the word as it is.
AbandonSilently(m) ==
  /\ pc[m] = "entered"
  /\ pc' = [pc EXCEPT ![m] = "idle"]
  /\ UNCHANGED <<word, seen, effects, taken, saved, savedAt>>

\* The mutation is dropped unsettled, or its append failed ambiguously.
Abandon(m) ==
  /\ pc[m] = "entered"
  /\ Deny
  /\ pc' = [pc EXCEPT ![m] = "idle"]
  /\ UNCHANGED <<seen, effects, taken, saved, savedAt>>

\* Mutant: an active source is captured too.
SettledWordAny(w) == ~w.denied

\* capture succeeds on a word without DENIED and without active units.
SettledWord(w) == ~w.denied /\ w.active = 0

Capture(o) ==
  /\ SettledWord(word)
  /\ taken' = taken \cup {o}
  /\ saved' = [saved EXCEPT ![o] = word]
  /\ savedAt' = [savedAt EXCEPT ![o] = effects]
  /\ UNCHANGED <<word, pc, seen, effects>>

\* is_current_for, of the same owner and partition.
IsCurrent(o) == word = saved[o]

-----------------------------------------------------------------------------
FreshWord == [denied |-> FALSE, revision |-> 0, active |-> 0]

LineageInit ==
  /\ word = FreshWord /\ effects = 0
  /\ pc = [m \in Mutators |-> "idle"] /\ seen = [m \in Mutators |-> FreshWord]
  /\ taken = {} /\ saved = [o \in Observers |-> FreshWord]
  /\ savedAt = [o \in Observers |-> 0]

LineageNext ==
  \/ \E m \in Mutators : \/ LoadToBegin(m)
                         \/ Begin(m)
                         \/ BeginDenied(m)
                         \/ Effect(m)
                         \/ LoadToFinish(m)
                         \/ Finish(m)
                         \/ FinishDenied(m)
                         \/ Abandon(m)
  \/ \E o \in Observers : Capture(o)

LineageSpec == LineageInit /\ [][LineageNext]_lvars

-----------------------------------------------------------------------------
\* The state is well formed: neither half of the packed word leaves its range, so
\* no begin or finish carries into the other half or into DENIED.
LineageTypeOK ==
  /\ word \in Words
  /\ pc \in [Mutators -> Steps]
  /\ seen \in [Mutators -> Words]
  /\ effects \in Nat
  /\ taken \subseteq Observers
  /\ saved \in [Observers -> Words]
  /\ savedAt \in [Observers -> Nat]

\* The mutations that hold an active unit.
Units == {m \in Mutators : pc[m] \in {"entered", "settling", "unsettled"}}

\* Unless observation is denied, the active count is exact: it counts the
\* mutations that were entered and are not settled, whatever compare-exchanges
\* were lost to contention.
ActiveExact == ~word.denied => word.active = Cardinality(Units)

\* An observation that is_current_for accepts saw every effect on the partition:
\* nothing changed between its capture and the check.
ObservationSound ==
  \A o \in taken : IsCurrent(o) => savedAt[o] = effects

\* "Old observations never become current again": no later step of any mutation
\* renews an observation that was not current.
NeverRenewed ==
  [][\A o \in taken : ~IsCurrent(o) /\ saved'[o] = saved[o] => ~IsCurrent(o)']_lvars

\* What the packed word promises its observers together.
LineageSafe == [](LineageTypeOK /\ ActiveExact /\ ObservationSound) /\ NeverRenewed

=============================================================================
