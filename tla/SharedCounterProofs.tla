------------------------- MODULE SharedCounterProofs ------------------------
(***************************************************************************)
(* Proofs about three numbers that several threads, or processes, read and *)
(* write beside one another: the query lineage's word (QueryLineage), the  *)
(* sink's budget (SinkBudget) and the node's incarnation (NodeIdentity).   *)
(***************************************************************************)
EXTENDS QueryLineage, SinkBudget, NodeIdentity, TLAPS, FiniteSetTheorems

-----------------------------------------------------------------------------
(***************************************************************************)
(* Proofs about QueryLineage, for any finite set of mutators, any set of   *)
(* observers and any widths of the two counters.  The inductive invariant  *)
(* adds to the exact active count that a denied word stays denied, and what*)
(* the word can still be once an observation was saved.                    *)
(***************************************************************************)

\* A mutation that loaded a denied word still finds it denied.
DenialSticks ==
  \A m \in Mutators : pc[m] \in {"beginning", "settling"} /\ seen[m].denied => word.denied

\* A saved word was settled; the revision has not fallen below it, an active
\* unit lies above it, and so does every effect since.
SavedBehind ==
  \A o \in taken :
    /\ ~saved[o].denied /\ saved[o].active = 0
    /\ saved[o].revision <= word.revision
    /\ word.denied \/ word.active = 0 \/ saved[o].revision < word.revision
    /\ savedAt[o] = effects \/ word.denied \/ saved[o].revision < word.revision

LineageInv == LineageTypeOK /\ ActiveExact /\ DenialSticks /\ SavedBehind

-----------------------------------------------------------------------------
\* A revision below its maximum is raised without wrapping.
LEMMA RaisedRevision ==
  ASSUME NEW r \in 0..MaxRevision, r # MaxRevision
  PROVE  (r + 1) % (MaxRevision + 1) = r + 1
  BY LineageAssumption, SMT

\* The units are a finite set.
LEMMA UnitsFinite == IsFiniteSet(Units) /\ Cardinality(Units) \in Nat
  <1>1. Units \subseteq Mutators  BY DEF Units
  <1>2. IsFiniteSet(Units)  BY <1>1, LineageAssumption, FS_Subset
  <1> QED  BY <1>2, FS_CardinalityType

\* One mutator enters: one unit more.
LEMMA UnitsAdd ==
  ASSUME NEW m \in Mutators, m \notin Units, Units' = Units \cup {m}
  PROVE  Cardinality(Units') = Cardinality(Units) + 1
  BY UnitsFinite, FS_AddElement

\* One mutator leaves: one unit less.
LEMMA UnitsRemove ==
  ASSUME NEW m \in Mutators, m \in Units, Units' = Units \ {m}
  PROVE  Cardinality(Units') = Cardinality(Units) - 1
  BY UnitsFinite, FS_RemoveElement

\* Some mutator is entered: the count is not zero.
LEMMA UnitsPositive ==
  ASSUME NEW m \in Units
  PROVE  Cardinality(Units) # 0
  BY UnitsFinite, FS_EmptySet

-----------------------------------------------------------------------------
LEMMA LineageInitInv == LineageInit => LineageInv
  <1> SUFFICES ASSUME LineageInit PROVE LineageInv  OBVIOUS
  <1>1. LineageTypeOK
    BY LineageAssumption DEF LineageInit, LineageTypeOK, Words, FreshWord, Steps
  <1>2. Units = {}  BY DEF LineageInit, Units
  <1>3. ActiveExact  BY <1>2, FS_EmptySet DEF LineageInit, ActiveExact, FreshWord
  <1>4. DenialSticks /\ SavedBehind  BY DEF LineageInit, DenialSticks, SavedBehind
  <1> QED  BY <1>1, <1>3, <1>4 DEF LineageInv

\* A step that leaves the units, the effects and the observations alone, and
\* either keeps the word or denies it.
LEMMA WordKeptInv ==
  ASSUME LineageInv, LineageTypeOK',
         Units' = Units \/ word'.denied,
         word' = word \/ word' = [word EXCEPT !.denied = TRUE],
         UNCHANGED <<effects, taken, saved, savedAt>>
  PROVE  ActiveExact' /\ SavedBehind'
  <1>1. ActiveExact'
    BY DEF LineageInv, ActiveExact, LineageTypeOK, Words
  <1>2. SavedBehind'
    BY DEF LineageInv, SavedBehind, LineageTypeOK, Words
  <1> QED  BY <1>1, <1>2

\* Steps that load the word or that deny it.
LEMMA LoadInv ==
  ASSUME LineageInv, NEW m \in Mutators, LoadToBegin(m) \/ LoadToFinish(m)
  PROVE  LineageInv'
  <1>1. LineageTypeOK'
    BY DEF LineageInv, LineageTypeOK, LoadToBegin, LoadToFinish, Steps
  <1>2. Units' = Units
    BY DEF LineageInv, LineageTypeOK, Units, LoadToBegin, LoadToFinish
  <1>3. ActiveExact' /\ SavedBehind'
    BY <1>1, <1>2, WordKeptInv DEF LoadToBegin, LoadToFinish
  <1>4. DenialSticks'
    BY DEF LineageInv, LineageTypeOK, DenialSticks, LoadToBegin, LoadToFinish
  <1> QED  BY <1>1, <1>3, <1>4 DEF LineageInv

LEMMA DenyInv ==
  ASSUME LineageInv, NEW m \in Mutators, BeginDenied(m) \/ FinishDenied(m) \/ Abandon(m)
  PROVE  LineageInv'
  <1> USE DEF BeginDenied, FinishDenied, Abandon, Deny
  <1>1. LineageTypeOK'
    BY DEF LineageInv, LineageTypeOK, Steps, Words
  <1>2. word'.denied
    BY DEF LineageInv, LineageTypeOK, Words
  <1>3. ActiveExact' /\ SavedBehind'
    BY <1>1, <1>2, WordKeptInv
  <1>4. DenialSticks'
    BY <1>2 DEF DenialSticks
  <1> QED  BY <1>1, <1>3, <1>4 DEF LineageInv

\* begin's compare-exchange.
LEMMA BeginInv ==
  ASSUME LineageInv, NEW m \in Mutators, Begin(m)
  PROVE  LineageInv'
  <1> USE DEF Begin
  <1>1. CASE seen[m].denied
    <2>1. word.denied /\ word' = word
      BY <1>1 DEF LineageInv, DenialSticks
    <2>2. LineageTypeOK'
      BY <1>1 DEF LineageInv, LineageTypeOK, Steps
    <2>3. ActiveExact' /\ SavedBehind'
      BY <2>1, <2>2, WordKeptInv
    <2>4. DenialSticks'
      BY <2>1 DEF DenialSticks
    <2> QED  BY <2>2, <2>3, <2>4 DEF LineageInv
  <1>2. CASE ~seen[m].denied /\ (Exhausted(seen[m]) \/ word # seen[m])
    <2>1. word' = word /\ pc' = [pc EXCEPT ![m] = "contended"]
      BY <1>2
    <2>2. LineageTypeOK'
      BY <2>1 DEF LineageInv, LineageTypeOK, Steps
    <2>3. Units' = Units
      BY <2>1 DEF LineageInv, LineageTypeOK, Units
    <2>4. ActiveExact' /\ SavedBehind'
      BY <2>1, <2>2, <2>3, WordKeptInv
    <2>5. DenialSticks'
      BY <2>1 DEF LineageInv, LineageTypeOK, DenialSticks
    <2> QED  BY <2>2, <2>4, <2>5 DEF LineageInv
  <1>3. CASE ~seen[m].denied /\ ~Exhausted(seen[m]) /\ word = seen[m]
    <2>1. /\ pc' = [pc EXCEPT ![m] = "entered"] /\ word' = EnteredWord(word)
          /\ word.active # MaxActive /\ word.revision # MaxRevision /\ ~word.denied
      BY <1>3 DEF Exhausted
    <2>2. /\ word' \in Words /\ word'.active = word.active + 1
          /\ word'.revision = word.revision + 1 /\ ~word'.denied
      <3>1. word \in Words  BY DEF LineageInv, LineageTypeOK
      <3>2. (word.revision + 1) % (MaxRevision + 1) = word.revision + 1
        BY <2>1, <3>1, RaisedRevision DEF Words
      <3>3. word.revision + 1 \in 0..MaxRevision /\ word.active + 1 \in 0..MaxActive
        BY <2>1, <3>1, LineageAssumption DEF Words
      <3> QED  BY <2>1, <3>1, <3>2, <3>3 DEF EnteredWord, Words
    <2>3. LineageTypeOK'
      BY <2>1, <2>2 DEF LineageInv, LineageTypeOK, Steps
    <2>4. m \notin Units /\ Units' = Units \cup {m}
      BY <2>1 DEF LineageInv, LineageTypeOK, Units
    <2>5. ActiveExact'
      BY <2>1, <2>2, <2>4, UnitsAdd DEF LineageInv, ActiveExact
    <2>6. DenialSticks'
      BY <2>1 DEF LineageInv, LineageTypeOK, DenialSticks
    <2>7. SavedBehind'
      BY <2>2 DEF LineageInv, LineageTypeOK, SavedBehind, Words
    <2> QED  BY <2>3, <2>5, <2>6, <2>7 DEF LineageInv
  <1> QED  BY <1>1, <1>2, <1>3

\* finish's compare-exchange.
LEMMA FinishInv ==
  ASSUME LineageInv, NEW m \in Mutators, Finish(m)
  PROVE  LineageInv'
  <1> USE DEF Finish
  <1>1. CASE seen[m].denied
    <2>1. word.denied /\ word' = word
      BY <1>1 DEF LineageInv, DenialSticks
    <2>2. LineageTypeOK'
      BY <1>1 DEF LineageInv, LineageTypeOK, Steps
    <2>3. ActiveExact' /\ SavedBehind'
      BY <2>1, <2>2, WordKeptInv
    <2>4. DenialSticks'
      BY <2>1 DEF DenialSticks
    <2> QED  BY <2>2, <2>3, <2>4 DEF LineageInv
  <1>2. CASE ~seen[m].denied /\ (seen[m].active = 0 \/ word # seen[m])
    <2>1. word' = word /\ pc' = [pc EXCEPT ![m] = "unsettled"]
      BY <1>2
    <2>2. LineageTypeOK'
      BY <2>1 DEF LineageInv, LineageTypeOK, Steps
    <2>3. Units' = Units
      BY <2>1 DEF LineageInv, LineageTypeOK, Units
    <2>4. ActiveExact' /\ SavedBehind'
      BY <2>1, <2>2, <2>3, WordKeptInv
    <2>5. DenialSticks'
      BY <2>1 DEF LineageInv, LineageTypeOK, DenialSticks
    <2> QED  BY <2>2, <2>4, <2>5 DEF LineageInv
  <1>3. CASE ~seen[m].denied /\ seen[m].active # 0 /\ word = seen[m]
    <2>1. /\ pc' = [pc EXCEPT ![m] = "idle"] /\ word' = [word EXCEPT !.active = @ - 1]
          /\ ~word.denied /\ word.active # 0
      BY <1>3
    <2>2. /\ word' \in Words /\ word'.active = word.active - 1
          /\ word'.revision = word.revision /\ ~word'.denied
      <3>1. word \in Words  BY DEF LineageInv, LineageTypeOK
      <3>2. word.active - 1 \in 0..MaxActive
        BY <2>1, <3>1, LineageAssumption DEF Words
      <3> QED  BY <2>1, <3>1, <3>2 DEF Words
    <2>3. LineageTypeOK'
      BY <2>1, <2>2 DEF LineageInv, LineageTypeOK, Steps
    <2>4. m \in Units /\ Units' = Units \ {m}
      BY <2>1 DEF LineageInv, LineageTypeOK, Units
    <2>5. ActiveExact'
      BY <2>1, <2>2, <2>4, UnitsRemove DEF LineageInv, ActiveExact
    <2>6. DenialSticks'
      BY <2>1 DEF LineageInv, LineageTypeOK, DenialSticks
    <2>7. SavedBehind'
      BY <2>1, <2>2 DEF LineageInv, LineageTypeOK, SavedBehind, Words
    <2> QED  BY <2>3, <2>5, <2>6, <2>7 DEF LineageInv
  <1> QED  BY <1>1, <1>2, <1>3

\* An effect happens only while the word is denied or active, so above every
\* saved revision.
LEMMA EffectInv ==
  ASSUME LineageInv, NEW m \in Mutators, Effect(m)
  PROVE  LineageInv'
  <1> USE DEF Effect
  <1>1. LineageTypeOK'  BY DEF LineageInv, LineageTypeOK
  <1>2. ActiveExact' /\ DenialSticks'
    <2>1. Units' = Units  BY DEF Units
    <2> QED  BY <2>1 DEF LineageInv, ActiveExact, DenialSticks
  <1>3. word.denied \/ word.active # 0
    <2>1. m \in Units  BY DEF Units
    <2> QED  BY <2>1, UnitsPositive DEF LineageInv, ActiveExact
  <1>4. SavedBehind'
    BY <1>3 DEF LineageInv, SavedBehind
  <1> QED  BY <1>1, <1>2, <1>4 DEF LineageInv

LEMMA CaptureInv ==
  ASSUME LineageInv, NEW o \in Observers, Capture(o)
  PROVE  LineageInv'
  <1> USE DEF Capture
  <1>1. LineageTypeOK'  BY DEF LineageInv, LineageTypeOK
  <1>2. ActiveExact' /\ DenialSticks'
    <2>1. Units' = Units  BY DEF Units
    <2> QED  BY <2>1 DEF LineageInv, ActiveExact, DenialSticks
  <1>3. SavedBehind'
    BY DEF LineageInv, LineageTypeOK, SavedBehind, SettledWord, Words
  <1> QED  BY <1>1, <1>2, <1>3 DEF LineageInv

LEMMA LineageNextInv == LineageInv /\ [LineageNext]_lvars => LineageInv'
  <1> SUFFICES ASSUME LineageInv, [LineageNext]_lvars PROVE LineageInv'  OBVIOUS
  <1>1. CASE UNCHANGED lvars
    <2>1. Units' = Units  BY <1>1 DEF lvars, Units
    <2> QED
      BY <1>1, <2>1 DEF lvars, LineageInv, LineageTypeOK, ActiveExact, DenialSticks, SavedBehind
  <1>2. CASE LineageNext
    BY <1>2, LoadInv, DenyInv, BeginInv, FinishInv, EffectInv, CaptureInv DEF LineageNext
  <1> QED  BY <1>1, <1>2

-----------------------------------------------------------------------------
\* The inductive invariant holds in every reachable state.
THEOREM LineageInvariance == LineageSpec => []LineageInv
  BY LineageInitInv, LineageNextInv, PTL DEF LineageSpec

\* The word stays within its two counters and every mutator in its steps.
THEOREM LineageTypeCorrect == LineageSpec => []LineageTypeOK
  <1>1. LineageInv => LineageTypeOK  BY DEF LineageInv
  <1> QED  BY <1>1, LineageInvariance, PTL

\* Unless observation is denied, the active half of the packed word counts
\* exactly the entered mutations (Source::begin and Source::finish).
THEOREM ActiveCountExact == LineageSpec => []ActiveExact
  <1>1. LineageInv => ActiveExact  BY DEF LineageInv
  <1> QED  BY <1>1, LineageInvariance, PTL

\* An observation that is_current_for accepts saw every effect on its partition.
THEOREM ObservationsSound == LineageSpec => []ObservationSound
  <1>1. LineageInv => ObservationSound
    BY DEF LineageInv, LineageTypeOK, SavedBehind, ObservationSound, IsCurrent, Words
  <1> QED  BY <1>1, LineageInvariance, PTL

\* Whatever is not current stays so: the word is denied for good, or its
\* revision is above the saved one and never falls.
THEOREM ObservationsNeverRenewed == LineageSpec => NeverRenewed
  <1> DEFINE Step == \A o \in taken : ~IsCurrent(o) /\ saved'[o] = saved[o] => ~IsCurrent(o)'
  <1>1. LineageInv /\ LineageNext /\ LineageInv' => Step
    <2> SUFFICES ASSUME LineageInv, LineageNext, LineageInv', NEW o \in taken,
                        ~IsCurrent(o), saved'[o] = saved[o]
                 PROVE  ~IsCurrent(o)'
      OBVIOUS
    <2>1. word \in Words /\ word' \in Words /\ saved[o] \in Words
      BY DEF LineageInv, LineageTypeOK
    <2>2. word.denied \/ saved[o].revision < word.revision
      BY <2>1 DEF LineageInv, SavedBehind, IsCurrent, Words
    <2>3. /\ word.denied => word'.denied
          /\ word.revision <= word'.revision
      <3>1. ASSUME NEW m \in Mutators, Begin(m) PROVE word.revision <= word'.revision
        <4>1. CASE word' = word  BY <4>1, <2>1 DEF Words
        <4>2. CASE word' = EnteredWord(word) /\ word.revision # MaxRevision
          <5>1. (word.revision + 1) % (MaxRevision + 1) = word.revision + 1
            BY <2>1, <4>2, RaisedRevision DEF Words
          <5> QED  BY <2>1, <4>2, <5>1 DEF EnteredWord, Words
        <4> QED  BY <3>1, <4>1, <4>2 DEF Begin, Exhausted
      <3>2. ASSUME NEW m \in Mutators, Begin(m) PROVE word.denied => word'.denied
        BY <2>1, <3>2 DEF Begin, EnteredWord, Words
      <3>3. CASE \E m \in Mutators : Begin(m)
        BY <3>1, <3>2, <3>3
      <3>4. ASSUME NEW m \in Mutators, Finish(m)
            PROVE (word.denied => word'.denied) /\ word.revision <= word'.revision
        BY <2>1, <3>4 DEF Finish, Words
      <3>5. ASSUME word' = word \/ word' = [word EXCEPT !.denied = TRUE]
            PROVE (word.denied => word'.denied) /\ word.revision <= word'.revision
        BY <2>1, <3>5 DEF Words
      <3> QED
        BY <3>3, <3>4, <3>5
        DEF LineageNext, LoadToBegin, BeginDenied, Effect, LoadToFinish, FinishDenied,
            Abandon, Capture, Deny
    <2>4. ~saved[o].denied
      BY DEF LineageInv, SavedBehind
    <2> QED  BY <2>1, <2>2, <2>3, <2>4 DEF IsCurrent, Words
  <1> QED  BY <1>1, LineageInvariance, PTL DEF LineageSpec, NeverRenewed

\* All that the packed word promises its observers together, for any numbers of
\* mutators and observers and any width of the two counters.
THEOREM LineageAlwaysSafe == LineageSpec => LineageSafe
  BY LineageTypeCorrect, ActiveCountExact, ObservationsSound, ObservationsNeverRenewed, PTL
     DEF LineageSafe

-----------------------------------------------------------------------------
(***************************************************************************)
(* The sink's lag budget counts exactly what is out and leaves nobody      *)
(* asleep beside room (ReservationsSafe), for every number of callers and  *)
(* every limit.                                                            *)
(*                                                                         *)
(* The wake-up argument needs more than the property says: wait_lock has   *)
(* one holder, a stopped budget has no sleeper, and whoever sleeps, or is  *)
(* about to, beside room is owed a notify_all by a caller that has already *)
(* subtracted and not yet notified (RoomAwaited).                          *)
(***************************************************************************)

Places == {"idle", "bytes", "giveback", "gaveback", "slow", "check", "wbytes", "sleep",
           "asleep", "woken", "holding", "unbytes", "look", "signal"}
ItemPlaces == {"bytes", "wbytes", "giveback", "holding"}
WaitPlaces == {"check", "wbytes", "sleep", "asleep", "woken"}
LockPlaces == {"gaveback", "check", "wbytes", "sleep"}
WakerPlaces == {"unbytes", "look", "signal", "gaveback"}

Holders == {t \in Callers : sbPc[t] \in ItemPlaces}
Waiting == {t \in Callers : sbPc[t] \in WaitPlaces}

BudgetTypeOK ==
    /\ sbItems \in Int /\ sbBytes \in Int /\ sbWaiters \in Int
    /\ sbPc \in [Callers -> Places]

\* pending_items and waiters count, and stay within the limits.
Counted ==
    /\ sbItems = Cardinality(Holders) /\ sbWaiters = Cardinality(Waiting)
    /\ sbItems <= MaxItems /\ sbBytes <= MaxBytes

\* The condition variable's queue holds the callers parked on it.
AsleepExact == sbAsleep = {t \in Callers : sbPc[t] = "asleep"}

\* wait_lock is held by the one caller that is in a section it guards.
LockExact == \A t \in Callers : sbLock = t <=> sbPc[t] \in LockPlaces

\* Nobody parks, or is about to, on a stopped budget.
StoppedAwake == sbStopped => \A t \in Callers : sbPc[t] \notin {"wbytes", "sleep", "asleep"}

\* A caller that parks beside room will be notified.
RoomAwaited ==
    \A t \in Callers :
        sbPc[t] \in {"sleep", "asleep"} /\ sbItems < MaxItems /\ FitsBytes(t) =>
            \E u \in Callers : sbPc[u] \in WakerPlaces

BudgetInv == BudgetTypeOK /\ Counted /\ AsleepExact /\ LockExact /\ StoppedAwake /\ RoomAwaited

\* Caller t goes to a place; the others stay, or are woken.
Moves(t, to) ==
    /\ sbPc' \in [Callers -> Places]
    /\ sbPc'[t] = to
    /\ \A u \in Callers : u # t => sbPc'[u] = sbPc[u] \/ (sbPc[u] = "asleep" /\ sbPc'[u] = "woken")

One(b) == IF b THEN 1 ELSE 0

\* A count below its limit has room for one more.
LEMMA OneMoreFits ==
  ASSUME NEW i \in Int, NEW limit \in Int, i <= limit
  PROVE  /\ i >= i /\ i - 1 <= limit
         /\ i < limit => i + 1 \in Int /\ i + 1 <= limit /\ i + 1 >= i
  BY SMTT(100)

-----------------------------------------------------------------------------
\* A step without notify_all moves one caller.
LEMMA GotoMoves ==
  ASSUME BudgetTypeOK, NEW t \in Callers, NEW to \in Places, Goto(t, to)
  PROVE  Moves(t, to) /\ \A u \in Callers : u # t => sbPc'[u] = sbPc[u]
BY DEF BudgetTypeOK, Goto, Moves

\* A step with notify_all also wakes the callers that are parked.
LEMMA NotifyMoves ==
  ASSUME BudgetTypeOK, AsleepExact, NEW t \in Callers, NEW to \in Places \ {"asleep"},
         sbPc[t] # "asleep", sbPc' = NotifyAll([sbPc EXCEPT ![t] = to])
  PROVE  /\ Moves(t, to) /\ \A u \in Callers : sbPc'[u] # "asleep"
         /\ \A u \in Callers : u # t /\ sbPc[u] # "asleep" => sbPc'[u] = sbPc[u]
<1>1. \A u \in Callers : sbPc'[u] = IF u \in sbAsleep THEN "woken"
                                    ELSE IF u = t THEN to ELSE sbPc[u]
  BY DEF BudgetTypeOK, NotifyAll
<1>2. sbPc' \in [Callers -> Places]
  BY DEF BudgetTypeOK, NotifyAll, Places
<1> QED BY <1>1, <1>2 DEF AsleepExact, Moves

\* Both sets are finite.
LEMMA SetsFinite ==
  /\ IsFiniteSet(Holders) /\ Cardinality(Holders) \in Nat
  /\ IsFiniteSet(Waiting) /\ Cardinality(Waiting) \in Nat
<1>1. Holders \subseteq Callers /\ Waiting \subseteq Callers
  BY DEF Holders, Waiting
<1>2. IsFiniteSet(Holders) /\ IsFiniteSet(Waiting)
  BY <1>1, SinkBudgetAssumption, FS_Subset
<1> QED BY <1>2, FS_CardinalityType

\* Both counts follow the caller that moves: a woken caller still waits.
LEMMA CountsMove ==
  ASSUME NEW t \in Callers, NEW to \in Places, Moves(t, to)
  PROVE  /\ Cardinality(Holders') =
              Cardinality(Holders) + One(to \in ItemPlaces) - One(sbPc[t] \in ItemPlaces)
         /\ Cardinality(Waiting') =
              Cardinality(Waiting) + One(to \in WaitPlaces) - One(sbPc[t] \in WaitPlaces)
<1>1. ASSUME NEW S, NEW T, IsFiniteSet(S), T = S \cup {t}, t \notin S
      PROVE  Cardinality(T) = Cardinality(S) + 1
  BY <1>1, FS_AddElement
<1>2. ASSUME NEW S, NEW T, IsFiniteSet(S), T = S \ {t}, t \in S
      PROVE  Cardinality(T) = Cardinality(S) - 1
  BY <1>2, FS_RemoveElement
<1>3. /\ \A u \in Callers : u # t => (u \in Holders' <=> u \in Holders)
      /\ \A u \in Callers : u # t => (u \in Waiting' <=> u \in Waiting)
      /\ t \in Holders' <=> to \in ItemPlaces
      /\ t \in Waiting' <=> to \in WaitPlaces
      /\ t \in Holders <=> sbPc[t] \in ItemPlaces
      /\ t \in Waiting <=> sbPc[t] \in WaitPlaces
      /\ Holders \subseteq Callers /\ Holders' \subseteq Callers
      /\ Waiting \subseteq Callers /\ Waiting' \subseteq Callers
  BY DEF Moves, Holders, Waiting, ItemPlaces, WaitPlaces
<1>4. Cardinality(Holders') =
        Cardinality(Holders) + One(to \in ItemPlaces) - One(sbPc[t] \in ItemPlaces)
  <2>1. CASE t \in Holders' /\ t \notin Holders
    <3>1. Holders' = Holders \cup {t}
      BY <1>3, <2>1
    <3> QED BY <1>1, <1>3, <2>1, <3>1, SetsFinite DEF One
  <2>2. CASE t \notin Holders' /\ t \in Holders
    <3>1. Holders' = Holders \ {t}
      BY <1>3, <2>2
    <3> QED BY <1>2, <1>3, <2>2, <3>1, SetsFinite DEF One
  <2>3. CASE t \in Holders' <=> t \in Holders
    <3>1. Holders' = Holders
      BY <1>3, <2>3
    <3> QED BY <1>3, <2>3, <3>1, SetsFinite DEF One
  <2> QED BY <2>1, <2>2, <2>3
<1>5. Cardinality(Waiting') =
        Cardinality(Waiting) + One(to \in WaitPlaces) - One(sbPc[t] \in WaitPlaces)
  <2>1. CASE t \in Waiting' /\ t \notin Waiting
    <3>1. Waiting' = Waiting \cup {t}
      BY <1>3, <2>1
    <3> QED BY <1>1, <1>3, <2>1, <3>1, SetsFinite DEF One
  <2>2. CASE t \notin Waiting' /\ t \in Waiting
    <3>1. Waiting' = Waiting \ {t}
      BY <1>3, <2>2
    <3> QED BY <1>2, <1>3, <2>2, <3>1, SetsFinite DEF One
  <2>3. CASE t \in Waiting' <=> t \in Waiting
    <3>1. Waiting' = Waiting
      BY <1>3, <2>3
    <3> QED BY <1>3, <2>3, <3>1, SetsFinite DEF One
  <2> QED BY <2>1, <2>2, <2>3
<1> QED BY <1>4, <1>5

\* wait_lock passes to a caller that enters a guarded section while it is free.
LEMMA LockMoves ==
  ASSUME LockExact, NEW t \in Callers, NEW to \in Places, Moves(t, to),
         to \in LockPlaces => sbPc[t] \in LockPlaces \/ sbLock = Nobody,
         sbLock' = IF to \in LockPlaces THEN t
                   ELSE IF sbPc[t] \in LockPlaces THEN Nobody ELSE sbLock
  PROVE  LockExact'
<1>1. Nobody \notin Callers
  BY SinkBudgetAssumption
<1>2. \A u \in Callers : u # t => (sbPc'[u] \in LockPlaces <=> sbPc[u] \in LockPlaces)
  BY DEF Moves, LockPlaces
<1> QED BY <1>1, <1>2 DEF Moves, LockExact

LEMMA StoppedMoves ==
  ASSUME StoppedAwake, NEW t \in Callers, NEW to \in Places, Moves(t, to), sbStopped' = sbStopped,
         to \in {"wbytes", "sleep", "asleep"} => ~sbStopped
  PROVE  StoppedAwake'
BY DEF StoppedAwake, Moves

\* Without notify_all only the caller that parks joins the queue.
LEMMA AsleepMoves ==
  ASSUME AsleepExact, NEW t \in Callers, NEW to \in Places, Moves(t, to), sbPc[t] # "asleep",
         \A u \in Callers : u # t => sbPc'[u] = sbPc[u],
         sbAsleep' = IF to = "asleep" THEN sbAsleep \cup {t} ELSE sbAsleep
  PROVE  AsleepExact'
BY DEF AsleepExact, Moves

\* A step that makes no room, and whose caller owes no notify_all.
LEMMA RoomNotMade ==
  ASSUME BudgetTypeOK, RoomAwaited, NEW t \in Callers, NEW to \in Places, Moves(t, to),
         sbItems' \in Int, sbBytes' \in Int, sbItems' >= sbItems, sbBytes' >= sbBytes,
         sbPc[t] \notin WakerPlaces,
         to \in {"sleep", "asleep"} => sbPc[t] = "sleep" \/ sbItems' >= MaxItems
  PROVE  RoomAwaited'
<1> SUFFICES ASSUME NEW u \in Callers, sbPc'[u] \in {"sleep", "asleep"},
                    sbItems' < MaxItems, FitsBytes(u)'
             PROVE  \E v \in Callers : sbPc'[v] \in WakerPlaces
  BY DEF RoomAwaited
<1>1. MaxItems \in Int /\ MaxBytes \in Int /\ Bytes[u] \in Int
  BY SinkBudgetAssumption
<1>2. sbItems < MaxItems /\ FitsBytes(u)
  BY <1>1 DEF BudgetTypeOK, FitsBytes
<1>3. sbPc[u] \in {"sleep", "asleep"}
  BY <1>1, <1>2 DEF Moves, BudgetTypeOK
<1>4. PICK v \in Callers : sbPc[v] \in WakerPlaces
  BY <1>2, <1>3 DEF RoomAwaited
<1>5. v # t /\ sbPc'[v] = sbPc[v]
  BY <1>4 DEF Moves, WakerPlaces
<1> QED BY <1>4, <1>5

\* What remains of a step once its effects on the queue and on room are known.
LEMMA StepInv ==
  ASSUME BudgetInv, NEW t \in Callers, NEW to \in Places, Moves(t, to), AsleepExact', RoomAwaited',
         sbItems' = sbItems + One(to \in ItemPlaces) - One(sbPc[t] \in ItemPlaces),
         sbWaiters' = sbWaiters + One(to \in WaitPlaces) - One(sbPc[t] \in WaitPlaces),
         sbItems' <= MaxItems, sbBytes' \in Int, sbBytes' <= MaxBytes,
         sbStopped' = sbStopped, to \in {"wbytes", "sleep", "asleep"} => ~sbStopped,
         to \in LockPlaces => sbPc[t] \in LockPlaces \/ sbLock = Nobody,
         sbLock' = IF to \in LockPlaces THEN t
                   ELSE IF sbPc[t] \in LockPlaces THEN Nobody ELSE sbLock
  PROVE  BudgetInv'
<1>1. LockExact' /\ StoppedAwake'
  BY LockMoves, StoppedMoves DEF BudgetInv
<1>2. sbItems = Cardinality(Holders) /\ sbWaiters = Cardinality(Waiting)
  BY DEF BudgetInv, Counted
<1>3. sbItems' = Cardinality(Holders') /\ sbWaiters' = Cardinality(Waiting')
  BY <1>2, CountsMove
<1>4. sbItems' \in Int /\ sbWaiters' \in Int
  BY DEF BudgetInv, BudgetTypeOK, One
<1>5. BudgetTypeOK' /\ Counted'
  BY <1>3, <1>4 DEF BudgetTypeOK, Counted, Moves
<1> QED BY <1>1, <1>5 DEF BudgetInv

LEMMA BudgetNumbers ==
  ASSUME BudgetInv
  PROVE  /\ sbItems \in Int /\ sbBytes \in Int /\ sbWaiters \in Int
         /\ sbItems <= MaxItems /\ sbBytes <= MaxBytes
         /\ MaxItems \in Int /\ MaxBytes \in Int /\ \A t \in Callers : Bytes[t] \in Nat
BY SinkBudgetAssumption DEF BudgetInv, BudgetTypeOK, Counted

-----------------------------------------------------------------------------
\* Steps that make no room: try_reserve, and waiting for wait_lock.
LEMMA TakingInv ==
  ASSUME BudgetInv, NEW t \in Callers,
         \/ TryItems(t) \/ TryBytes(t) \/ LockToWait(t) \/ WokenLocks(t) \/ WaiterTriesItems(t)
         \/ WaiterTriesBytes(t) /\ FitsBytes(t)
         \/ Sleep(t)
  PROVE  BudgetInv'
<1> PICK to : to = sbPc'[t]
  OBVIOUS
<1>1. Goto(t, to) /\ to \in Places /\ sbPc[t] # "asleep"
  BY ZenonT(100)
     DEF BudgetInv, BudgetTypeOK, Places, TryItems, TryBytes, LockToWait, WokenLocks,
         WaiterTriesItems, WaiterTriesBytes, Sleep, At, Goto
<1>2. Moves(t, to) /\ \A u \in Callers : u # t => sbPc'[u] = sbPc[u]
  BY ZenonT(100), <1>1, GotoMoves DEF BudgetInv
<1>0. \A x : Goto(t, x) => to = x
  BY ZenonT(100) DEF Goto, BudgetInv, BudgetTypeOK
<1>3. /\ sbItems' = sbItems + One(to \in ItemPlaces) - One(sbPc[t] \in ItemPlaces)
      /\ sbWaiters' = sbWaiters + One(to \in WaitPlaces) - One(sbPc[t] \in WaitPlaces)
      /\ sbItems' <= MaxItems /\ sbItems' >= sbItems /\ sbItems' \in Int
  <2>1. \/ /\ sbItems' = sbItems + 1 /\ sbItems < MaxItems
           /\ to \in ItemPlaces /\ sbPc[t] \notin ItemPlaces
        \/ sbItems' = sbItems /\ (to \in ItemPlaces <=> sbPc[t] \in ItemPlaces)
    BY ZenonT(100), <1>0 DEF ItemPlaces, TryItems, TryBytes, LockToWait, WokenLocks,
                             WaiterTriesItems, WaiterTriesBytes, Sleep, At
  <2>2. \/ sbWaiters' = sbWaiters + 1 /\ to \in WaitPlaces /\ sbPc[t] \notin WaitPlaces
        \/ sbWaiters' = sbWaiters - 1 /\ to \notin WaitPlaces /\ sbPc[t] \in WaitPlaces
        \/ sbWaiters' = sbWaiters /\ (to \in WaitPlaces <=> sbPc[t] \in WaitPlaces)
    BY ZenonT(100), <1>0 DEF WaitPlaces, TryItems, TryBytes, LockToWait, WokenLocks,
                             WaiterTriesItems, WaiterTriesBytes, Sleep, At
  <2>3. sbItems' = sbItems + One(to \in ItemPlaces) - One(sbPc[t] \in ItemPlaces)
    <3>1. sbItems \in Int
      BY ZenonT(100), BudgetNumbers
    <3> QED BY SMTT(100), <2>1, <3>1 DEF One
  <2>4. sbWaiters' = sbWaiters + One(to \in WaitPlaces) - One(sbPc[t] \in WaitPlaces)
    <3>1. sbWaiters \in Int
      BY ZenonT(100), BudgetNumbers
    <3> QED BY SMTT(100), <2>2, <3>1 DEF One
  <2>5. sbItems' <= MaxItems /\ sbItems' >= sbItems /\ sbItems' \in Int
    <3>1. sbItems' = sbItems \/ (sbItems' = sbItems + 1 /\ sbItems < MaxItems)
      BY ZenonT(100), <2>1
    <3> QED BY ZenonT(100), <3>1, BudgetNumbers, OneMoreFits
  <2> QED BY ZenonT(100), <2>3, <2>4, <2>5
<1>4. sbBytes' \in Int /\ sbBytes' <= MaxBytes /\ sbBytes' >= sbBytes
  <2>1. sbBytes' = sbBytes \/ (sbBytes' = sbBytes + Bytes[t] /\ FitsBytes(t))
    BY ZenonT(100) DEF TryItems, TryBytes, LockToWait, WokenLocks,
                       WaiterTriesItems, WaiterTriesBytes, Sleep
  <2> QED BY SMTT(100), <2>1, BudgetNumbers DEF FitsBytes
<1>5. /\ sbStopped' = sbStopped
      /\ to \in {"wbytes", "sleep", "asleep"} => ~sbStopped
      /\ sbAsleep' = IF to = "asleep" THEN sbAsleep \cup {t} ELSE sbAsleep
      /\ to \in {"sleep", "asleep"} => sbPc[t] = "sleep" \/ sbItems' >= MaxItems
      /\ sbPc[t] \notin WakerPlaces
  <2>1. sbStopped' = sbStopped /\ sbPc[t] \notin WakerPlaces
    BY ZenonT(100) DEF WakerPlaces, TryItems, TryBytes, LockToWait, WokenLocks,
                       WaiterTriesItems, WaiterTriesBytes, Sleep, At
  <2>2. to \in {"wbytes", "sleep", "asleep"} => ~sbStopped
    BY ZenonT(100), <1>0 DEF BudgetInv, StoppedAwake, TryItems, TryBytes, LockToWait, WokenLocks,
                             WaiterTriesItems, WaiterTriesBytes, Sleep, At
  <2>3. sbAsleep' = IF to = "asleep" THEN sbAsleep \cup {t} ELSE sbAsleep
    BY ZenonT(100), <1>0 DEF TryItems, TryBytes, LockToWait, WokenLocks,
                             WaiterTriesItems, WaiterTriesBytes, Sleep
  <2>4. to \in {"sleep", "asleep"} =>
          sbPc[t] = "sleep" \/ (sbItems' = sbItems /\ ~(sbItems < MaxItems))
    BY ZenonT(100), <1>0 DEF TryItems, TryBytes, LockToWait, WokenLocks,
                             WaiterTriesItems, WaiterTriesBytes, Sleep, At
  <2>5. ~(sbItems < MaxItems) => sbItems >= MaxItems
    BY SMTT(100), BudgetNumbers
  <2> QED BY ZenonT(100), <2>1, <2>2, <2>3, <2>4, <2>5
<1>6. /\ to \in LockPlaces => sbPc[t] \in LockPlaces \/ sbLock = Nobody
      /\ sbLock' = IF to \in LockPlaces THEN t
                   ELSE IF sbPc[t] \in LockPlaces THEN Nobody ELSE sbLock
  BY ZenonT(100), <1>1
          DEF BudgetInv, BudgetTypeOK, LockExact, LockPlaces, TryItems, TryBytes, LockToWait,
              WokenLocks, WaiterTriesItems, WaiterTriesBytes, Sleep, At, Goto
<1>7. AsleepExact'
  BY ZenonT(100), <1>1, <1>2, <1>5, AsleepMoves DEF BudgetInv
<1>8. RoomAwaited'
  BY ZenonT(100), <1>1, <1>2, <1>3, <1>4, <1>5, RoomNotMade DEF BudgetInv
<1> QED BY <1>1, <1>2, <1>3, <1>4, <1>5, <1>6, <1>7, <1>8, StepInv

\* Steps that make room, or look for waiters, on the way to a notify_all.
LEMMA ReleasingInv ==
  ASSUME BudgetInv, NEW t \in Callers,
         \/ LockForGiveBack(t) \/ ReleaseItem(t) \/ ReleaseBytes(t)
         \/ LookForWaiters(t) /\ sbWaiters > 0
  PROVE  BudgetInv'
<1> PICK to : to = sbPc'[t]
  OBVIOUS
<1>1. Goto(t, to) /\ to \in WakerPlaces /\ sbPc[t] # "asleep"
  BY DEF BudgetInv, BudgetTypeOK, WakerPlaces, LockForGiveBack, ReleaseItem, ReleaseBytes,
         LookForWaiters, At, Goto
<1>2. to \in Places /\ to \notin {"wbytes", "sleep", "asleep"}
  BY <1>1 DEF WakerPlaces, Places
<1>3. Moves(t, to) /\ \A u \in Callers : u # t => sbPc'[u] = sbPc[u]
  BY <1>1, <1>2, GotoMoves DEF BudgetInv
<1>4. /\ sbItems' = sbItems + One(to \in ItemPlaces) - One(sbPc[t] \in ItemPlaces)
      /\ sbWaiters' = sbWaiters + One(to \in WaitPlaces) - One(sbPc[t] \in WaitPlaces)
      /\ sbItems' <= MaxItems
  <2>0. \A x : Goto(t, x) => to = x
    BY ZenonT(100) DEF Goto, BudgetInv, BudgetTypeOK
  <2>1. \/ sbItems' = sbItems - 1 /\ to \notin ItemPlaces /\ sbPc[t] \in ItemPlaces
        \/ sbItems' = sbItems /\ to \notin ItemPlaces /\ sbPc[t] \notin ItemPlaces
    BY ZenonT(100), <2>0 DEF ItemPlaces, LockForGiveBack, ReleaseItem, ReleaseBytes,
                             LookForWaiters, At
  <2>2. sbWaiters' = sbWaiters /\ to \notin WaitPlaces /\ sbPc[t] \notin WaitPlaces
    BY ZenonT(100), <2>0 DEF WaitPlaces, LockForGiveBack, ReleaseItem, ReleaseBytes,
                             LookForWaiters, At
  <2>3. sbItems' = sbItems + One(to \in ItemPlaces) - One(sbPc[t] \in ItemPlaces)
    <3>1. sbItems \in Int
      BY ZenonT(100), BudgetNumbers
    <3> QED BY SMTT(100), <2>1, <3>1 DEF One
  <2>4. sbWaiters' = sbWaiters + One(to \in WaitPlaces) - One(sbPc[t] \in WaitPlaces)
    <3>1. sbWaiters \in Int
      BY ZenonT(100), BudgetNumbers
    <3> QED BY SMTT(100), <2>2, <3>1 DEF One
  <2>5. sbItems' <= MaxItems
    BY ZenonT(100), <2>1, BudgetNumbers, OneMoreFits
  <2> QED BY ZenonT(100), <2>3, <2>4, <2>5
<1>5. sbBytes' \in Int /\ sbBytes' <= MaxBytes
  <2>1. sbBytes' = sbBytes \/ sbBytes' = sbBytes - Bytes[t]
    BY ZenonT(100) DEF LockForGiveBack, ReleaseItem, ReleaseBytes, LookForWaiters
  <2>2. sbBytes - Bytes[t] \in Int /\ sbBytes - Bytes[t] <= MaxBytes
    BY SMTT(100), BudgetNumbers
  <2> QED BY ZenonT(100), <2>1, <2>2, BudgetNumbers
<1>6. /\ sbStopped' = sbStopped /\ sbAsleep' = sbAsleep
      /\ to \in LockPlaces => sbPc[t] \in LockPlaces \/ sbLock = Nobody
      /\ sbLock' = IF to \in LockPlaces THEN t
                   ELSE IF sbPc[t] \in LockPlaces THEN Nobody ELSE sbLock
  BY <1>1 DEF BudgetInv, BudgetTypeOK, LockPlaces, LockForGiveBack, ReleaseItem, ReleaseBytes,
              LookForWaiters, At, Goto
<1>7. AsleepExact'
  BY <1>1, <1>2, <1>3, <1>6, AsleepMoves DEF BudgetInv
<1>8. RoomAwaited'
  BY ZenonT(100), <1>1, <1>3 DEF RoomAwaited, Moves
<1> QED BY <1>2, <1>3, <1>4, <1>5, <1>6, <1>7, <1>8, StepInv

\* release finds no waiter: nobody is parked.
LEMMA NobodyWaitsInv ==
  ASSUME BudgetInv, NEW t \in Callers, LookForWaiters(t), ~(sbWaiters > 0)
  PROVE  BudgetInv'
<1>1. Goto(t, "idle") /\ sbPc[t] = "look" /\ UNCHANGED <<sbItems, sbBytes, sbWaiters, sbStopped,
                                                       sbLock, sbAsleep>>
  BY DEF LookForWaiters, At
<1>2. "idle" \in Places
  BY DEF Places
<1>3. Moves(t, "idle") /\ \A u \in Callers : u # t => sbPc'[u] = sbPc[u]
  BY <1>1, <1>2, GotoMoves DEF BudgetInv
<1>4. Waiting = {}
  <2>1. sbWaiters = Cardinality(Waiting)
    BY DEF BudgetInv, Counted
  <2>2. Cardinality(Waiting) = 0
    BY <2>1, SetsFinite
  <2> QED BY <2>2, SetsFinite, FS_EmptySet
<1>5. RoomAwaited'
  BY <1>3, <1>4 DEF RoomAwaited, Moves, Waiting, WaitPlaces
<1>6. AsleepExact'
  BY <1>1, <1>2, <1>3, AsleepMoves DEF BudgetInv
<1>7. /\ sbItems' = sbItems + One("idle" \in ItemPlaces) - One(sbPc[t] \in ItemPlaces)
      /\ sbWaiters' = sbWaiters + One("idle" \in WaitPlaces) - One(sbPc[t] \in WaitPlaces)
  BY <1>1, BudgetNumbers DEF One, ItemPlaces, WaitPlaces
<1>8. "idle" \notin LockPlaces /\ sbPc[t] \notin LockPlaces
  BY ZenonT(100), <1>1 DEF LockPlaces
<1> QED BY <1>1, <1>2, <1>3, <1>5, <1>6, <1>7, <1>8, BudgetNumbers, StepInv

\* Steps that notify everyone: nobody stays parked, and wait_lock keeps others
\* from parking.
LEMMA NotifyingInv ==
  ASSUME BudgetInv, NEW t \in Callers,
         \/ NotifyGivenBack(t) \/ Signal(t)
         \/ WaiterTriesBytes(t) /\ ~FitsBytes(t)
  PROVE  BudgetInv'
<1> PICK to : to = IF sbPc[t] = "signal" THEN "idle" ELSE IF sbPc[t] = "wbytes" THEN "sleep"
                   ELSE IF Availability THEN "idle" ELSE "slow"
  BY ZenonT(100)
<1>1. /\ sbPc' = NotifyAll([sbPc EXCEPT ![t] = to]) /\ sbAsleep' = {}
      /\ sbPc[t] \in {"gaveback", "signal", "wbytes"}
      /\ sbPc[t] = "wbytes" => ~FitsBytes(t)
  BY DEF NotifyGivenBack, Signal, WaiterTriesBytes, At
<1>2. to \in {"idle", "slow", "sleep"} /\ to \in Places
  BY DEF Places
<1>3. /\ Moves(t, to) /\ \A u \in Callers : sbPc'[u] # "asleep"
      /\ \A u \in Callers : u # t /\ sbPc[u] # "asleep" => sbPc'[u] = sbPc[u]
  BY <1>1, <1>2, NotifyMoves DEF BudgetInv
<1>4. AsleepExact'
  BY <1>1, <1>3 DEF AsleepExact
<1>5. /\ sbItems' = sbItems + One(to \in ItemPlaces) - One(sbPc[t] \in ItemPlaces)
      /\ sbWaiters' = sbWaiters + One(to \in WaitPlaces) - One(sbPc[t] \in WaitPlaces)
      /\ sbItems' <= MaxItems
  <2>1. \/ sbItems' = sbItems - 1 /\ to \notin ItemPlaces /\ sbPc[t] \in ItemPlaces
        \/ sbItems' = sbItems /\ to \notin ItemPlaces /\ sbPc[t] \notin ItemPlaces
    BY ZenonT(100) DEF ItemPlaces, NotifyGivenBack, Signal, WaiterTriesBytes, At
  <2>2. sbWaiters' = sbWaiters /\ (to \in WaitPlaces <=> sbPc[t] \in WaitPlaces)
    BY ZenonT(100) DEF WaitPlaces, NotifyGivenBack, Signal, WaiterTriesBytes, At
  <2>3. sbItems' = sbItems + One(to \in ItemPlaces) - One(sbPc[t] \in ItemPlaces)
    <3>1. sbItems \in Int
      BY ZenonT(100), BudgetNumbers
    <3> QED BY SMTT(100), <2>1, <3>1 DEF One
  <2>4. sbWaiters' = sbWaiters + One(to \in WaitPlaces) - One(sbPc[t] \in WaitPlaces)
    <3>1. sbWaiters \in Int
      BY ZenonT(100), BudgetNumbers
    <3> QED BY SMTT(100), <2>2, <3>1 DEF One
  <2>5. sbItems' <= MaxItems
    BY ZenonT(100), <2>1, BudgetNumbers, OneMoreFits
  <2> QED BY ZenonT(100), <2>3, <2>4, <2>5
<1>6. sbBytes' = sbBytes /\ sbStopped' = sbStopped
  BY DEF NotifyGivenBack, Signal, WaiterTriesBytes
<1>7. /\ to \in LockPlaces => sbPc[t] \in LockPlaces \/ sbLock = Nobody
      /\ sbLock' = IF to \in LockPlaces THEN t
                   ELSE IF sbPc[t] \in LockPlaces THEN Nobody ELSE sbLock
  BY <1>1 DEF BudgetInv, LockExact, LockPlaces, NotifyGivenBack, Signal, WaiterTriesBytes, At
<1>8. to \in {"wbytes", "sleep", "asleep"} => ~sbStopped
  BY <1>1 DEF BudgetInv, StoppedAwake
<1>9. \A u \in Callers : u # t => sbPc[u] # "sleep"
  <2>1. sbLock = t \/ sbLock = Nobody
    BY <1>1 DEF BudgetInv, LockExact, LockPlaces, NotifyGivenBack, Signal, WaiterTriesBytes, At
  <2>2. Nobody \notin Callers
    BY SinkBudgetAssumption
  <2> QED BY <2>1, <2>2 DEF BudgetInv, LockExact, LockPlaces
<1>10. RoomAwaited'
  <2>1. \A u \in Callers : sbPc'[u] \in {"sleep", "asleep"} => u = t /\ sbPc[t] = "wbytes"
    BY <1>1, <1>3, <1>9 DEF Moves
  <2>2. sbPc[t] = "wbytes" => ~FitsBytes(t)'
    BY <1>1, <1>6 DEF FitsBytes
  <2> QED BY <2>1, <2>2 DEF RoomAwaited
<1> QED BY <1>2, <1>3, <1>4, <1>5, <1>6, <1>7, <1>8, <1>10, BudgetNumbers, StepInv

\* stop wakes everyone, under wait_lock.
LEMMA StopInv ==
  ASSUME BudgetInv, StopBudget
  PROVE  BudgetInv'
<1>1. /\ \A u \in Callers : sbPc'[u] = IF u \in sbAsleep THEN "woken" ELSE sbPc[u]
      /\ sbPc' \in [Callers -> Places] /\ sbAsleep' = {} /\ sbLock = Nobody
      /\ UNCHANGED <<sbItems, sbBytes, sbWaiters, sbLock>>
  BY DEF BudgetInv, BudgetTypeOK, StopBudget, NotifyAll, Places
<1>2. \A u \in Callers : sbPc'[u] = IF sbPc[u] = "asleep" THEN "woken" ELSE sbPc[u]
  BY <1>1 DEF BudgetInv, AsleepExact
<1>3. \A u \in Callers : sbPc[u] \notin LockPlaces
  BY <1>1, SinkBudgetAssumption DEF BudgetInv, LockExact
<1>4. Holders' = Holders /\ Waiting' = Waiting
  BY <1>2 DEF Holders, Waiting, ItemPlaces, WaitPlaces
<1>5. BudgetTypeOK' /\ Counted'
  BY <1>1, <1>4 DEF BudgetInv, BudgetTypeOK, Counted
<1>6. AsleepExact' /\ LockExact'
  BY <1>1, <1>2, <1>3 DEF BudgetInv, AsleepExact, LockExact, LockPlaces
<1>7. StoppedAwake' /\ RoomAwaited'
  BY <1>2, <1>3 DEF StoppedAwake, RoomAwaited, LockPlaces
<1> QED BY <1>5, <1>6, <1>7 DEF BudgetInv

LEMMA BudgetInitInv == BudgetInit => BudgetInv
<1> SUFFICES ASSUME BudgetInit PROVE BudgetInv
  OBVIOUS
<1>1. BudgetTypeOK /\ \A t \in Callers : sbPc[t] = "idle"
  BY DEF BudgetInit, BudgetTypeOK, Places
<1>2. Holders = {} /\ Waiting = {}
  BY <1>1 DEF Holders, Waiting, ItemPlaces, WaitPlaces
<1>3. Counted
  BY <1>2, FS_EmptySet, SinkBudgetAssumption DEF BudgetInit, Counted
<1>4. AsleepExact /\ LockExact /\ StoppedAwake /\ RoomAwaited
  BY <1>1, SinkBudgetAssumption
     DEF BudgetInit, AsleepExact, LockExact, LockPlaces, StoppedAwake, RoomAwaited
<1> QED BY <1>1, <1>3, <1>4 DEF BudgetInv

\* One case for each kind of step.
LEMMA BudgetNextInv == BudgetInv /\ [BudgetNext]_sbVars => BudgetInv'
<1> SUFFICES ASSUME BudgetInv, [BudgetNext]_sbVars PROVE BudgetInv'
  OBVIOUS
<1>1. CASE UNCHANGED sbVars
  BY <1>1 DEF sbVars, BudgetInv, BudgetTypeOK, Counted, Holders, Waiting, AsleepExact, LockExact,
              StoppedAwake, RoomAwaited, FitsBytes
<1>2. CASE StopBudget
  BY <1>2, StopInv
<1>3. ASSUME NEW t \in Callers, CallerStep(t) PROVE BudgetInv'
  BY <1>3, TakingInv, ReleasingInv, NobodyWaitsInv, NotifyingInv DEF CallerStep
<1> QED BY <1>1, <1>2, <1>3 DEF BudgetNext

-----------------------------------------------------------------------------
\* The inductive invariant of the budget holds in every reachable state.
THEOREM BudgetInvariance == BudgetSpec => []BudgetInv
BY BudgetInitInv, BudgetNextInv, PTL DEF BudgetSpec

\* Whatever compare-and-sets, subtractions, waits and notifications interleave:
\* pending_items and waiters count exactly the callers that hold or wait, the
\* limits hold, and a caller parked beside room, or on a stopped budget, has a
\* wake-up on the way (Budget::reserve, release, stop).
THEOREM ReservationsAlwaysSafe == BudgetSpec => []ReservationsSafe
<1>1. BudgetInv => BudgetExact
  <2>1. /\ {t \in Callers : HasItem(t)} = Holders
        /\ {t \in Callers : sbPc[t] \in {"check", "wbytes", "sleep", "asleep", "woken"}} = Waiting
    BY DEF HasItem, Holders, Waiting, ItemPlaces, WaitPlaces
  <2> QED BY <2>1 DEF BudgetInv, Counted, BudgetExact
<1>2. BudgetInv => NoLostBudgetWakeup
  BY ZenonT(100) DEF BudgetInv, AsleepExact, StoppedAwake, RoomAwaited, WakerPlaces, NoLostBudgetWakeup
<1> QED BY <1>1, <1>2, BudgetInvariance, PTL DEF ReservationsSafe

-----------------------------------------------------------------------------
(***************************************************************************)
(* The node's incarnation, for any number of processes and power cuts.     *)
(*                                                                         *)
(* NodeIdentity: as long as no two processes open the directory at once,   *)
(* the incarnation that the file shows and the one that a power cut may    *)
(* leave are both at least every incarnation that was ever used, and the   *)
(* process that opens holds one above them.                                *)
(***************************************************************************)

Opening(p) == opener[p].at \in {"write", "sync", "engine"}

IdentityTypeOK ==
  /\ {identityNamed, onDisk, newest} \subseteq Nat
  /\ opener \in [Processes -> [at : {"away", "write", "sync", "engine", "open"}, mine : Nat]]
  /\ overlapped \in BOOLEAN /\ repeated \in BOOLEAN

\* The incarnation of the only process that opens.
MineAbove(p) ==
  /\ opener[p].at = "write" => opener[p].mine = identityNamed + 1
  /\ opener[p].at = "sync" => opener[p].mine = identityNamed /\ opener[p].mine > newest
  /\ opener[p].at = "engine" =>
       /\ opener[p].mine = identityNamed /\ onDisk = identityNamed
       /\ opener[p].mine > newest

IdentityInv ==
  /\ IdentityTypeOK
  /\ ~overlapped =>
       /\ \A p, q \in Processes : Opening(p) /\ Opening(q) => p = q
       /\ \A p \in Processes : MineAbove(p)
       /\ newest <= identityNamed /\ newest <= onDisk
       /\ ~repeated

LEMMA IdentityNextInv ==
  ASSUME IdentityInv, [IdentityNext]_identityVars
  PROVE  IdentityInv'
<1> USE DEF IdentityInv, IdentityTypeOK, MineAbove, Opening
<1>1. CASE UNCHANGED identityVars
  BY ZenonT(100), <1>1 DEF identityVars
<1>2. ASSUME NEW p \in Processes, ReadIdentity(p) PROVE IdentityInv'
  <2>1. /\ opener[p].at = "away"
        /\ opener' = [opener EXCEPT ![p] = [at |-> "write", mine |-> identityNamed + 1]]
        /\ overlapped' = (overlapped \/ \E q \in Processes \ {p} : opener[q].at \notin {"away", "open"})
        /\ UNCHANGED <<identityNamed, onDisk, locked, newest, repeated, powerCuts>>
    BY <1>2 DEF ReadIdentity
  <2>2. overlapped' \in BOOLEAN /\ (~overlapped' => ~overlapped)
    BY <2>1, Zenon
  <2>3. ~overlapped' => \A q \in Processes \ {p} : opener[q].at \in {"away", "open"}
    BY <2>1
  <2>4. /\ opener'[p] = [at |-> "write", mine |-> identityNamed + 1]
        /\ \A q \in Processes \ {p} : opener'[q] = opener[q]
    BY <2>1
  <2>5. IdentityTypeOK'
    <3>1. identityNamed + 1 \in Nat
      OBVIOUS
    <3>2. [at |-> "write", mine |-> identityNamed + 1]
            \in [at : {"away", "write", "sync", "engine", "open"}, mine : Nat]
      BY ZenonT(100), <3>1
    <3> QED BY ZenonT(100), <2>1, <2>2, <3>2
  <2> QED BY ZenonT(100), <2>1, <2>2, <2>3, <2>4, <2>5
<1>3. ASSUME NEW p \in Processes, RenameIdentity(p) PROVE IdentityInv'
  BY <1>3 DEF RenameIdentity
<1>4. ASSUME NEW p \in Processes, SyncIdentity(p) PROVE IdentityInv'
  BY <1>4 DEF SyncIdentity
<1>5. ASSUME NEW p \in Processes, OpenEngine(p) PROVE IdentityInv'
  BY <1>5 DEF OpenEngine, Away
<1>6. ASSUME NEW p \in Processes, StopProcess(p) PROVE IdentityInv'
  BY <1>6 DEF StopProcess, Away
<1>7. CASE PowerCut
  BY <1>7 DEF PowerCut, Away
<1> QED BY ZenonT(100), <1>1, <1>2, <1>3, <1>4, <1>5, <1>6, <1>7 DEF IdentityNext

\* Unless two processes opened the directory at once, no successful open repeats an
\* incarnation: each is larger than all those before it, through stops at any step of
\* load_or_create and through power cuts.
THEOREM IncarnationsAlwaysGrow == IdentitySpec => []IncarnationsGrow
<1>1. IdentityInit => IdentityInv
  <2> SUFFICES ASSUME IdentityInit PROVE IdentityInv
    OBVIOUS
  <2>1. \A p \in Processes : opener[p].at = "away"
    BY DEF IdentityInit, Away
  <2>2. IdentityTypeOK
    <3>1. Away \in [at : {"away", "write", "sync", "engine", "open"}, mine : Nat]
      BY DEF Away
    <3>2. opener \in [Processes -> [at : {"away", "write", "sync", "engine", "open"}, mine : Nat]]
      BY <3>1 DEF IdentityInit
    <3>3. overlapped \in BOOLEAN /\ repeated \in BOOLEAN
      BY Zenon DEF IdentityInit
    <3> QED BY <3>2, <3>3 DEF IdentityInit, IdentityTypeOK
  <2> QED BY <2>1, <2>2 DEF IdentityInit, IdentityInv, MineAbove, Opening
<1>2. IdentityInv => IncarnationsGrow
  BY DEF IdentityInv, IncarnationsGrow
<1> QED BY <1>1, <1>2, IdentityNextInv, PTL DEF IdentitySpec
=============================================================================
