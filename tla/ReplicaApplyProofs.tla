------------------------- MODULE ReplicaApplyProofs -------------------------
(***************************************************************************)
(* What a follower acknowledges it has stored as it was sent, and its      *)
(* reorder window stays in order, for any numbers of requests, batches,    *)
(* failures and restarts: the guarded batches, the drain, the lanes and    *)
(* the restart keep the invariant of ReplicaApplyInvariant, and the        *)
(* theorems.                                                               *)
(***************************************************************************)
EXTENDS ReplicaApplyInvariant

-----------------------------------------------------------------------------
\* A guarded batch.
LEMMA PlanGuardedInv ==
  ASSUME ReplicaInv, PlanGuarded
  PROVE  ReplicaInv'
<1>1. /\ work.pc = "plan" /\ guarded /\ status[work.batch] = "None" /\ work.batch = nextBatch
      /\ work' = [work EXCEPT !.pc = "guarded"]
      /\ UNCHANGED <<scenario, call, inbox, cursor, buffered, status, digest, nextBatch, lane,
                     stored>>
  BY DEF PlanGuarded, Planning, coordVars, fixedVars
<1>2. work \in Busy
  BY <1>1, BusyFacts
<1>3. /\ work' \in Busy /\ work'.pc = "guarded" /\ work'.batch = work.batch
      /\ work'.content = work.content /\ work'.waiters = work.waiters /\ work'.moves = work.moves
  BY <1>1, <1>2 DEF Busy
<1>4. ReplicaTypeOK'
  BY <1>1, <1>3 DEF ReplicaInv, ReplicaTypeOK
<1>5. Stays
  BY <1>1 DEF Stays
<1>6. InboxSent' /\ BufferedSent' /\ LaneSent'
  BY <1>1, <1>5, HoldersStay
<1>7. CallsSent' /\ WorkSent'
  BY <1>1, <1>2, <1>3 DEF ReplicaInv, Holders, CallsSent, WorkSent, Matches, SentDigests,
                          identified, chunks
<1>8. Writes'
  BY <1>1, <1>3 DEF ReplicaInv, Writes, guarded
<1>9. LogSent' /\ LogDigests'
  BY <1>1 DEF ReplicaInv, Log, LogSent, LogDigests, SentDigests, identified, chunks
<1>10. AcksKept'
  BY <1>1, AcksSame
<1>11. Window'
  BY <1>1, <1>2, <1>3 DEF ReplicaInv, Window
<1> QED BY <1>4, <1>6, <1>7, <1>8, <1>9, <1>10, <1>11 DEF ReplicaInv, Holders, Log

LEMMA GuardCommitsInv ==
  ASSUME ReplicaInv, GuardCommits
  PROVE  ReplicaInv'
<1>1. /\ work.pc = "guarded" /\ work' = [work EXCEPT !.pc = "writing"]
      /\ status' = [status EXCEPT ![work.batch] = "Pending"]
      /\ digest' = [digest EXCEPT ![work.batch] = work.content]
      /\ nextBatch' = nextBatch + 1
      /\ UNCHANGED <<scenario, call, inbox, cursor, buffered, lane, stored>>
  BY DEF GuardCommits, fixedVars
<1>2. /\ work \in Busy /\ work.batch \in Batches /\ work.content \in Digests
  BY <1>1, BusyFacts
<1>3. /\ work' \in Busy /\ work'.pc = "writing" /\ work'.batch = work.batch
      /\ work'.content = work.content /\ work'.waiters = work.waiters /\ work'.moves = work.moves
  BY <1>1, <1>2 DEF Busy
<1>4. /\ guarded /\ DOMAIN lane = {} /\ status[work.batch] = "None" /\ work.batch = nextBatch
  BY <1>1 DEF ReplicaInv, Writes
<1>5. /\ status \in [Batches -> {"None", "Pending", "Aborted", "Committed"}]
      /\ digest \in [Batches -> Digests \cup {Hole}] /\ cursor \in 0..(MaxBatch + 1)
  BY Zenon DEF ReplicaInv, ReplicaTypeOK
<1>6. /\ status'[work.batch] = "Pending" /\ digest'[work.batch] = work.content
      /\ \A x \in Batches \ {work.batch} : status'[x] = status[x]
      /\ status' \in [Batches -> {"None", "Pending", "Aborted", "Committed"}]
      /\ digest' \in [Batches -> Digests \cup {Hole}]
  BY <1>1, <1>2, <1>5
<1>7. nextBatch \in 0..MaxBatch /\ nextBatch' \in 0..MaxBatch /\ MaxBatch \in Nat
  BY <1>1, <1>2, <1>4, ReplicaApplyAssumption DEF Batches
<1>8. ReplicaTypeOK'
  BY <1>1, <1>3, <1>6, <1>7 DEF ReplicaInv, ReplicaTypeOK
<1>9. Stays
  BY <1>1 DEF Stays
<1>10. InboxSent' /\ BufferedSent' /\ LaneSent'
  BY <1>1, <1>9, HoldersStay
<1>11. CallsSent' /\ WorkSent'
  BY <1>1, <1>2, <1>3 DEF ReplicaInv, Holders, CallsSent, WorkSent, Matches, SentDigests,
                          identified, chunks
<1>12. Writes'
  <2>1. \A x \in Batches : status'[x] # "None" => x < nextBatch'
    <3>1. \A x \in Batches : status[x] # "None" => x < nextBatch
      BY Zenon DEF ReplicaInv, Writes
    <3> QED BY <1>1, <1>4, <1>6, <1>7, <3>1 DEF Batches
  <2>2. guarded' /\ DOMAIN lane' = {}
    BY <1>1, <1>4 DEF guarded
  <2> QED BY <1>3, <1>6, <2>1, <2>2 DEF Writes
<1>13. LogSent' /\ LogDigests' /\ CommittedStays
  BY ZenonT(100), <1>1, <1>2, <1>4, NotCommitted
<1>14. AcksKept'
  BY <1>1, <1>13, AcksStay
<1>15. Window'
  <2>1. cursor # NoFollowerEntry => cursor <= nextBatch'
    BY <1>1, <1>5, <1>7 DEF ReplicaInv, Window
  <2> QED BY <1>1, <1>2, <1>3, <2>1 DEF ReplicaInv, Window
<1> QED BY <1>8, <1>10, <1>11, <1>12, <1>13, <1>14, <1>15 DEF ReplicaInv, Holders, Log

\* A batch that was Pending is in the log, under the digest it was reserved with.
LEMMA WrittenLog ==
  ASSUME ReplicaInv, scenario' = scenario, NEW b \in Batches, NEW c \in SentDigests(b),
         status[b] = "Pending", digest[b] = c, status' = [status EXCEPT ![b] = "Committed"],
         stored' = With(stored, b, c), digest' = digest
  PROVE  LogSent' /\ LogDigests' /\ CommittedStays
<1>1. status \in [Batches -> {"None", "Pending", "Aborted", "Committed"}]
  BY Zenon DEF ReplicaInv, ReplicaTypeOK
<1>2. /\ DOMAIN stored' = DOMAIN stored \cup {b} /\ stored'[b] = c
      /\ \A x \in DOMAIN stored \ {b} : stored'[x] = stored[x]
  BY DEF With
<1>3. status'[b] = "Committed" /\ \A x \in Batches \ {b} : status'[x] = status[x]
  BY <1>1
<1>4. \A x : SentDigests(x)' = SentDigests(x)
  BY DEF SentDigests, identified, chunks
<1>5. LogSent'
  BY <1>2, <1>4 DEF ReplicaInv, Log, LogSent
<1>6. LogDigests'
  BY <1>2, <1>3 DEF ReplicaInv, Log, LogDigests, identified, chunks
<1>7. CommittedStays
  BY <1>2, <1>3 DEF CommittedStays
<1> QED BY <1>5, <1>6, <1>7

\* The log may hold a batch that is Pending.
LEMMA MaybeWrittenLog ==
  ASSUME ReplicaInv, UNCHANGED <<scenario, status, digest>>, NEW b \in Batches,
         NEW c \in SentDigests(b), status[b] = "Pending",
         stored' \in {stored, With(stored, b, c)}
  PROVE  LogSent' /\ LogDigests' /\ CommittedStays /\ DOMAIN stored' \subseteq Batches
<1>0. DOMAIN stored \subseteq Batches /\ \A x : SentDigests(x)' = SentDigests(x)
  BY DEF ReplicaInv, ReplicaTypeOK, SentDigests, identified, chunks
<1>1. CASE stored' = stored
  BY <1>0, <1>1 DEF ReplicaInv, Log, LogSent, LogDigests, identified, chunks, CommittedStays
<1>2. CASE stored' = With(stored, b, c)
  <2>1. /\ DOMAIN stored' = DOMAIN stored \cup {b} /\ stored'[b] = c
        /\ \A x \in DOMAIN stored \ {b} : stored'[x] = stored[x]
    BY <1>2 DEF With
  <2>2. LogSent'
    BY <1>0, <2>1 DEF ReplicaInv, Log, LogSent
  <2>3. LogDigests' /\ CommittedStays
    BY <2>1 DEF ReplicaInv, Log, LogDigests, identified, chunks, CommittedStays
  <2> QED BY <1>0, <2>1, <2>2, <2>3
<1> QED BY <1>1, <1>2

\* A write ends: its batch leaves the lane or the worker, and stays Pending or not.
LEMMA SettledWrites ==
  ASSUME ReplicaInv, UNCHANGED <<scenario, digest, nextBatch>>, NEW b \in Batches,
         status[b] = "Pending", NEW s \in {"Pending", "Aborted", "Committed"},
         status' = [status EXCEPT ![b] = s],
         DOMAIN lane' = DOMAIN lane \ {b}, \A x \in DOMAIN lane \ {b} : lane'[x] = lane[x],
         work'.pc \notin {"guarded", "writing"}
  PROVE  Writes' /\ status' \in [Batches -> {"None", "Pending", "Aborted", "Committed"}]
<1>1. /\ status \in [Batches -> {"None", "Pending", "Aborted", "Committed"}]
      /\ DOMAIN lane \subseteq Batches
  BY Zenon DEF ReplicaInv, ReplicaTypeOK
<1>2. /\ status' \in [Batches -> {"None", "Pending", "Aborted", "Committed"}]
      /\ \A x \in Batches \ {b} : status'[x] = status[x]
  BY <1>1
<1>3. guarded' => DOMAIN lane' = {}
  BY DEF ReplicaInv, Writes, guarded
<1>4. \A x \in DOMAIN lane' : status'[x] = "Pending" /\ digest'[x] = lane'[x].content
  BY <1>1, <1>2 DEF ReplicaInv, Writes
<1>5. \A x \in Batches : status'[x] # "None" => x < nextBatch'
  BY <1>2 DEF ReplicaInv, Writes
<1> QED BY <1>2, <1>3, <1>4, <1>5 DEF Writes

LEMMA WritingFacts ==
  ASSUME ReplicaInv, work.pc = "writing"
  PROVE  /\ work.batch \in Batches /\ status[work.batch] = "Pending"
         /\ digest[work.batch] = work.content /\ DOMAIN lane = {}
         /\ work.batch < nextBatch /\ nextBatch \in 0..MaxBatch /\ nextBatch <= nextBatch
<1>1. work.batch \in Batches
  BY BusyFacts
<1>2. /\ status[work.batch] = "Pending" /\ digest[work.batch] = work.content
      /\ DOMAIN lane = {} /\ work.batch < nextBatch
  BY <1>1 DEF ReplicaInv, Writes
<1>3. nextBatch \in 0..MaxBatch /\ nextBatch <= nextBatch
  BY ReplicaApplyAssumption DEF ReplicaInv, ReplicaTypeOK
<1> QED BY <1>1, <1>2, <1>3

LEMMA GuardedWrittenInv ==
  ASSUME ReplicaInv, GuardedWritten
  PROVE  ReplicaInv'
<1>1. /\ work.pc = "writing" /\ status' = [status EXCEPT ![work.batch] = "Committed"]
      /\ stored' = With(stored, work.batch, work.content)
      /\ call' = Answered(work.waiters, "ok") /\ work' = Accepted
      /\ cursor' = IF work.moves THEN cursor + 1 ELSE cursor
      /\ UNCHANGED <<scenario, inbox, buffered, digest, nextBatch, lane>>
  BY DEF GuardedWritten, fixedVars
<1>2. /\ work \in Busy /\ work.batch \in Batches /\ work.content \in SentDigests(work.batch)
      /\ work.waiters \in SUBSET Requests
      /\ \A r \in work.waiters : Matches(r, work.batch, work.content) /\ call[r].state # "new"
  BY <1>1, BusyFacts, Zenon
<1>3. /\ status[work.batch] = "Pending" /\ digest[work.batch] = work.content
      /\ DOMAIN lane = {} /\ work.batch < nextBatch
      /\ nextBatch \in 0..MaxBatch /\ nextBatch <= nextBatch
  BY <1>1, WritingFacts, Zenon
<1>4. Window' /\ cursor' \in 0..(MaxBatch + 1) /\ work' \in {Resting, Draining}
  BY <1>1, <1>2, <1>3, AcceptWindow
<1>5. "ok" \in CallStates \ {"new"}
  BY DEF CallStates
<1>6. /\ Holders'
      /\ call' \in [Requests -> [state : CallStates, batch : Batches, content : Digests]]
  BY ZenonT(100), <1>1, <1>2, <1>4, <1>5, HandsOver
<1>7. Writes' /\ status' \in [Batches -> {"None", "Pending", "Aborted", "Committed"}]
  <2>1. work'.pc \notin {"guarded", "writing"}
    BY <1>4, WorkShapes
  <2>2. DOMAIN lane' = DOMAIN lane \ {work.batch}
        /\ \A x \in DOMAIN lane \ {work.batch} : lane'[x] = lane[x]
    BY <1>1, <1>3
  <2>3. "Committed" \in {"Pending", "Aborted", "Committed"}
    OBVIOUS
  <2> QED BY ZenonT(100), <1>1, <1>2, <1>3, <2>1, <2>2, <2>3, SettledWrites
<1>8. LogSent' /\ LogDigests' /\ CommittedStays
  BY ZenonT(100), <1>1, <1>2, <1>3, WrittenLog
<1>9. /\ DOMAIN stored' = DOMAIN stored \cup {work.batch}
      /\ stored'[work.batch] = work.content
  BY <1>1 DEF With
<1>10. status'[work.batch] = "Committed"
  BY <1>1, <1>2 DEF ReplicaInv, ReplicaTypeOK
<1>11. AcksKept'
  BY <1>1, <1>2, <1>8, <1>9, <1>10, OkAnswer
<1>12. ReplicaTypeOK'
  BY <1>1, <1>2, <1>4, <1>6, <1>7, <1>9 DEF ReplicaInv, ReplicaTypeOK
<1> QED BY <1>4, <1>6, <1>7, <1>8, <1>11, <1>12 DEF ReplicaInv, Log

LEMMA GuardedFailsInv ==
  ASSUME ReplicaInv, GuardedFails
  PROVE  ReplicaInv'
<1>1. /\ work.pc = "writing" /\ work' = Resting
      /\ UNCHANGED <<scenario, inbox, cursor, buffered, lane>>
  BY DEF GuardedFails, fixedVars
<1>2. /\ work \in Busy /\ work.batch \in Batches /\ work.content \in SentDigests(work.batch)
      /\ work.waiters \in SUBSET Requests
      /\ \A r \in work.waiters : call[r].state # "new"
  BY <1>1, BusyFacts, Zenon
<1>3. /\ status[work.batch] = "Pending" /\ digest[work.batch] = work.content
      /\ DOMAIN lane = {} /\ work.batch < nextBatch
      /\ nextBatch \in 0..MaxBatch /\ nextBatch <= nextBatch
  BY <1>1, WritingFacts, Zenon
<1>4. CASE /\ Failed(work.batch) /\ UNCHANGED stored
           /\ call' = Answered(work.waiters, "failed")
  <2>1. /\ status' = [status EXCEPT ![work.batch] = "Aborted"] /\ digest' = digest
        /\ nextBatch' = nextBatch
    BY <1>4 DEF Failed
  <2>2. "failed" \in CallStates \ {"new", "ok"} /\ work.batch \notin DOMAIN lane
    BY <1>3 DEF CallStates
  <2> QED BY <1>1, <1>3, <1>4, <2>1, <2>2, UndoneInv
<1>5. CASE /\ UNCHANGED coordVars /\ stored' \in {stored, With(stored, work.batch, work.content)}
           /\ call' = Answered(work.waiters, "ambiguous")
  <2>1. UNCHANGED <<status, digest, nextBatch>>
    BY <1>5 DEF coordVars
  <2>2. "ambiguous" \in CallStates \ {"new", "ok"}
    BY DEF CallStates
  <2>3. /\ Holders'
        /\ call' \in [Requests -> [state : CallStates, batch : Batches, content : Digests]]
    BY ZenonT(100), <1>1, <1>2, <1>5, <2>2, HandsOver
  <2>4. LogSent' /\ LogDigests' /\ CommittedStays /\ DOMAIN stored' \subseteq Batches
    BY <1>1, <1>2, <1>3, <1>5, <2>1, MaybeWrittenLog
  <2>5. AcksKept'
    BY ZenonT(100), <1>2, <1>5, <2>2, <2>4, OtherAnswer
  <2>6. Writes'
    BY <1>1, <2>1, WorkShapes DEF ReplicaInv, Writes, guarded
  <2>7. Window'
    BY ZenonT(100), <1>1, <1>2, <1>3, <2>1, RestWindow
  <2>8. ReplicaTypeOK'
    BY <1>1, <2>1, <2>3, <2>4 DEF ReplicaInv, ReplicaTypeOK
  <2> QED BY <2>3, <2>4, <2>5, <2>6, <2>7, <2>8 DEF ReplicaInv, Log
<1> QED BY <1>4, <1>5 DEF GuardedFails

\* drain_contiguous.
LEMMA DrainInv ==
  ASSUME ReplicaInv, Drain
  PROVE  ReplicaInv'
<1>1. /\ work.pc = "drain"
      /\ UNCHANGED <<scenario, call, inbox, cursor, status, digest, nextBatch, lane, stored>>
  BY DEF Drain, coordVars, fixedVars
<1>2. /\ cursor # NoFollowerEntry /\ cursor <= nextBatch
      /\ \A b \in DOMAIN buffered : b >= cursor /\ b - cursor <= MaxGap
  BY <1>1 DEF ReplicaInv, Window
<1>3. Stays /\ InboxSent' /\ LaneSent'
  <2>1. Stays
    BY <1>1 DEF Stays
  <2> QED BY <1>1, <2>1, HoldersStay
<1>4. CallsSent'
  BY <1>1 DEF ReplicaInv, Holders, CallsSent, SentDigests, identified, chunks
<1>5. AcksKept'
  BY <1>1, AcksSame
<1>6. CASE cursor \notin DOMAIN buffered
  <2>1. work' = Resting /\ work'.pc = "idle" /\ work' \notin Busy /\ buffered' = buffered
    BY <1>6, WorkShapes DEF Drain
  <2>2. Writes' /\ LogSent' /\ LogDigests'
    BY <1>1, <2>1, LogUntouched
  <2>3. BufferedSent' /\ WorkSent'
    BY <1>1, <1>3, <2>1, HoldersStay
  <2>4. Window'
    BY <1>1, <1>2, <1>6, <2>1 DEF Window, NoFollowerEntry
  <2>5. ReplicaTypeOK'
    BY <1>1, <2>1 DEF ReplicaInv, ReplicaTypeOK
  <2> QED BY <1>3, <1>4, <1>5, <2>2, <2>3, <2>4, <2>5 DEF ReplicaInv, Holders, Log
<1>7. CASE cursor \in DOMAIN buffered
  <2>1. /\ work' = [pc |-> "plan", batch |-> cursor, content |-> buffered[cursor].content,
                    waiters |-> buffered[cursor].waiters, moves |-> TRUE]
        /\ buffered' = Without(buffered, cursor)
    BY <1>7 DEF Drain
  <2>2. /\ cursor \in Batches /\ buffered[cursor] \in Held
        /\ DOMAIN buffered \subseteq Batches /\ \A b \in DOMAIN buffered : buffered[b] \in Held
    BY <1>7 DEF ReplicaInv, ReplicaTypeOK
  <2>3. /\ buffered[cursor].content \in Digests /\ buffered[cursor].waiters \in SUBSET Requests
    BY <2>2 DEF Held
  <2>4. /\ work' \in Busy /\ work'.pc = "plan" /\ work'.batch = cursor
        /\ work'.content = buffered[cursor].content
        /\ work'.waiters = buffered[cursor].waiters
    BY <2>1, <2>2, <2>3 DEF Busy
  <2>5. /\ DOMAIN buffered' = DOMAIN buffered \ {cursor}
        /\ \A b \in DOMAIN buffered \ {cursor} : buffered'[b] = buffered[b]
    BY <2>1 DEF Without
  <2>6. Writes' /\ LogSent' /\ LogDigests'
    BY <1>1, <2>4, LogUntouched
  <2>7. \A x : SentDigests(x)' = SentDigests(x)
    BY <1>1 DEF SentDigests, identified, chunks
  <2>8. BufferedSent'
    BY <1>1, <2>5, <2>7 DEF ReplicaInv, Holders, BufferedSent, Matches
  <2>9. WorkSent'
    BY <1>1, <1>7, <2>4, <2>7 DEF ReplicaInv, Holders, BufferedSent, WorkSent, Matches
  <2>10. Window'
    BY <1>1, <1>2, <2>4, <2>5 DEF Window, NoFollowerEntry
  <2>11. ReplicaTypeOK'
    <3>1. DOMAIN buffered' \subseteq Batches /\ \A b \in DOMAIN buffered' : buffered'[b] \in Held
      BY <2>2, <2>5
    <3> QED BY <1>1, <2>4, <3>1 DEF ReplicaInv, ReplicaTypeOK
  <2> QED BY <1>3, <1>4, <1>5, <2>6, <2>8, <2>9, <2>10, <2>11 DEF ReplicaInv, Holders, Log
<1> QED BY <1>6, <1>7

-----------------------------------------------------------------------------
\* The lanes.
LEMMA LaneFacts ==
  ASSUME ReplicaInv, NEW b \in DOMAIN lane
  PROVE  /\ b \in Batches /\ lane[b].content \in SentDigests(b)
         /\ lane[b].waiters \in SUBSET Requests
         /\ \A r \in lane[b].waiters : Matches(r, b, lane[b].content) /\ call[r].state # "new"
         /\ status[b] = "Pending" /\ digest[b] = lane[b].content
         /\ work.pc \notin {"guarded", "writing"}
<1>1. b \in Batches /\ lane[b] \in Held
  BY DEF ReplicaInv, ReplicaTypeOK
<1>2. lane[b].waiters \in SUBSET Requests
  BY <1>1 DEF Held
<1>3. lane[b].content \in SentDigests(b) /\ \A r \in lane[b].waiters : Matches(r, b, lane[b].content)
  BY DEF ReplicaInv, Holders, LaneSent
<1>4. /\ status[b] = "Pending" /\ digest[b] = lane[b].content
      /\ work.pc \notin {"guarded", "writing"}
  BY DEF ReplicaInv, Writes
<1>5. \A r \in lane[b].waiters : call[r].state # "new"
  BY <1>3 DEF Matches
<1> QED BY <1>1, <1>2, <1>3, <1>4, <1>5

\* A write of a lane ends, and its waiters are told.
LEMMA LaneSettles ==
  ASSUME ReplicaInv, NEW b \in DOMAIN lane, NEW st \in CallStates \ {"new"}, Settle(b, st),
         NEW s \in {"Pending", "Aborted", "Committed"}, status' = [status EXCEPT ![b] = s],
         UNCHANGED <<scenario, inbox, cursor, buffered, work, digest, nextBatch>>,
         DOMAIN stored' \subseteq Batches
  PROVE  ReplicaTypeOK' /\ Holders' /\ Writes' /\ Window'
<1>1. /\ lane' = Without(lane, b) /\ call' = Answered(lane[b].waiters, st)
  BY DEF Settle
<1>2. /\ b \in Batches /\ lane[b].waiters \in SUBSET Requests /\ status[b] = "Pending"
      /\ \A r \in lane[b].waiters : call[r].state # "new"
      /\ work.pc \notin {"guarded", "writing"}
  BY LaneFacts, Zenon
<1>3. /\ DOMAIN lane' = DOMAIN lane \ {b} /\ \A x \in DOMAIN lane \ {b} : lane'[x] = lane[x]
  BY <1>1 DEF Without
<1>4. Stays
  BY <1>1, <1>2, AnsweredSent
<1>5. LaneSent'
  <2>1. \A x \in DOMAIN lane' : x \in DOMAIN lane /\ lane'[x] = lane[x]
    BY ZenonT(100), <1>3
  <2> QED BY ZenonT(100), <1>4, <2>1, SentDigestsStay, MatchesStay
             DEF ReplicaInv, Holders, LaneSent
<1>6. /\ Holders'
      /\ call' \in [Requests -> [state : CallStates, batch : Batches, content : Digests]]
  BY <1>1, <1>2, <1>5, HandsOver
<1>7. Writes' /\ status' \in [Batches -> {"None", "Pending", "Aborted", "Committed"}]
  BY ZenonT(100), <1>2, <1>3, SettledWrites
<1>8. Window'
  BY DEF ReplicaInv, Window
<1>9. ReplicaTypeOK'
  <2>1. DOMAIN lane' \subseteq Batches /\ \A x \in DOMAIN lane' : lane'[x] \in Held
    BY <1>3 DEF ReplicaInv, ReplicaTypeOK
  <2> QED BY ZenonT(100), <1>6, <1>7, <2>1 DEF ReplicaInv, ReplicaTypeOK
<1> QED BY <1>6, <1>7, <1>8, <1>9

LEMMA LaneWritesInv ==
  ASSUME ReplicaInv, NEW b, LaneWrites(b)
  PROVE  ReplicaInv'
<1>1. /\ b \in DOMAIN lane /\ status' = [status EXCEPT ![b] = "Committed"]
      /\ stored' = With(stored, b, lane[b].content) /\ Settle(b, "ok")
      /\ call' = Answered(lane[b].waiters, "ok")
      /\ UNCHANGED <<scenario, inbox, cursor, buffered, work, digest, nextBatch>>
  BY DEF LaneWrites, Settle, fixedVars
<1>2. /\ b \in Batches /\ lane[b].content \in SentDigests(b)
      /\ lane[b].waiters \in SUBSET Requests
      /\ \A r \in lane[b].waiters : Matches(r, b, lane[b].content)
      /\ status[b] = "Pending" /\ digest[b] = lane[b].content
  BY <1>1, LaneFacts, Zenon
<1>3. /\ DOMAIN stored' = DOMAIN stored \cup {b} /\ stored'[b] = lane[b].content
  BY <1>1 DEF With
<1>4. LogSent' /\ LogDigests' /\ CommittedStays
  BY ZenonT(100), <1>1, <1>2, WrittenLog
<1>5. ReplicaTypeOK' /\ Holders' /\ Writes' /\ Window'
  <2>1. "ok" \in CallStates \ {"new"} /\ "Committed" \in {"Pending", "Aborted", "Committed"}
    BY DEF CallStates
  <2>2. DOMAIN stored' \subseteq Batches
    BY ZenonT(100), <1>2, <1>3 DEF ReplicaInv, ReplicaTypeOK
  <2> QED BY ZenonT(100), <1>1, <2>1, <2>2, LaneSettles
<1>6. status'[b] = "Committed"
  BY ZenonT(100), <1>1, <1>2 DEF ReplicaInv, ReplicaTypeOK
<1>7. AcksKept'
  BY <1>1, <1>2, <1>3, <1>4, <1>6, OkAnswer
<1> QED BY <1>4, <1>5, <1>7 DEF ReplicaInv, Log

LEMMA LaneWritesNothingInv ==
  ASSUME ReplicaInv, NEW b, LaneWritesNothing(b)
  PROVE  ReplicaInv'
<1>1. /\ b \in DOMAIN lane /\ status' = [status EXCEPT ![b] = "Aborted"] /\ Settle(b, "failed")
      /\ call' = Answered(lane[b].waiters, "failed")
      /\ UNCHANGED <<scenario, inbox, cursor, buffered, work, digest, nextBatch, stored>>
  BY DEF LaneWritesNothing, Failed, Settle, fixedVars
<1>2. b \in Batches /\ lane[b].waiters \in SUBSET Requests /\ status[b] = "Pending"
  BY <1>1, LaneFacts, Zenon
<1>3. /\ "failed" \in CallStates \ {"new", "ok"}
      /\ "failed" \in CallStates \ {"new"} /\ "Aborted" \in {"Pending", "Aborted", "Committed"}
  BY DEF CallStates
<1>4. LogSent' /\ LogDigests' /\ CommittedStays
  BY ZenonT(100), <1>1, <1>2, NotCommitted
<1>5. ReplicaTypeOK' /\ Holders' /\ Writes' /\ Window'
  <2>1. DOMAIN stored' \subseteq Batches
    BY <1>1 DEF ReplicaInv, ReplicaTypeOK
  <2> QED BY ZenonT(100), <1>1, <1>3, <2>1, LaneSettles
<1>6. AcksKept'
  BY <1>1, <1>2, <1>3, <1>4, OtherAnswer
<1> QED BY <1>4, <1>5, <1>6 DEF ReplicaInv, Log

LEMMA LaneAmbiguousInv ==
  ASSUME ReplicaInv, NEW b, LaneAmbiguous(b)
  PROVE  ReplicaInv'
<1>1. /\ b \in DOMAIN lane /\ stored' \in {stored, With(stored, b, lane[b].content)}
      /\ Settle(b, "ambiguous") /\ call' = Answered(lane[b].waiters, "ambiguous")
      /\ UNCHANGED <<scenario, inbox, cursor, buffered, work, status, digest, nextBatch>>
  BY DEF LaneAmbiguous, Settle, coordVars, fixedVars
<1>2. /\ b \in Batches /\ lane[b].waiters \in SUBSET Requests /\ status[b] = "Pending"
      /\ lane[b].content \in SentDigests(b)
  BY <1>1, LaneFacts, Zenon
<1>3. /\ "ambiguous" \in CallStates \ {"new", "ok"}
      /\ "ambiguous" \in CallStates \ {"new"} /\ "Pending" \in {"Pending", "Aborted", "Committed"}
  BY DEF CallStates
<1>4. LogSent' /\ LogDigests' /\ CommittedStays /\ DOMAIN stored' \subseteq Batches
  BY <1>1, <1>2, MaybeWrittenLog
<1>5. ReplicaTypeOK' /\ Holders' /\ Writes' /\ Window'
  <2>1. status' = [status EXCEPT ![b] = "Pending"]
    BY ZenonT(100), <1>1, <1>2 DEF ReplicaInv, ReplicaTypeOK
  <2> QED BY ZenonT(100), <1>1, <1>3, <1>4, <2>1, LaneSettles
<1>6. AcksKept'
  BY <1>1, <1>2, <1>3, <1>4, OtherAnswer
<1> QED BY <1>4, <1>5, <1>6 DEF ReplicaInv, Log

-----------------------------------------------------------------------------
\* A restart finds in the log what was there and some of what was being written.
LEMMA InFlightFacts ==
  ASSUME ReplicaInv, NEW b \in DOMAIN InFlight
  PROVE  b \in Batches /\ status[b] = "Pending" /\ InFlight[b] \in SentDigests(b)
<1>1. CASE b \in DOMAIN lane
  <2>1. InFlight[b] = lane[b].content
    BY <1>1 DEF InFlight
  <2> QED BY ZenonT(100), <1>1, <2>1, LaneFacts
<1>2. CASE b \notin DOMAIN lane
  <2>1. work.pc = "writing" /\ b = work.batch /\ InFlight[b] = work.content
    BY <1>2 DEF InFlight
  <2> QED BY <2>1, WritingFacts, BusyFacts
<1> QED BY <1>1, <1>2

LEMMA RestartFollowerInv ==
  ASSUME ReplicaInv, RestartFollower
  PROVE  ReplicaInv'
<1> DEFINE Recovered(kept) == [b \in DOMAIN stored \cup kept |->
                                 IF b \in kept THEN InFlight[b] ELSE stored[b]]
<1>1. PICK kept \in SUBSET DOMAIN InFlight, end \in 0..MaxBatch :
        /\ DOMAIN Recovered(kept) \subseteq 0..(end - 1) /\ stored' = Recovered(kept)
        /\ status' = [b \in Batches |->
                        CASE b \in DOMAIN Recovered(kept) -> "Committed"
                          [] b \in (0..(end - 1)) \ DOMAIN Recovered(kept) -> "Aborted"
                          [] OTHER -> "None"]
        /\ digest' = [b \in Batches |->
                        CASE b \in DOMAIN Recovered(kept) \cap (identified \cup chunks) ->
                                Recovered(kept)[b]
                          [] b \in (0..(end - 1)) \ DOMAIN Recovered(kept) -> Hole
                          [] OTHER -> Unknown]
        /\ nextBatch' = end
  BY ZenonT(100) DEF RestartFollower
<1> DEFINE log == Recovered(kept)
<1>2. /\ DOMAIN log = DOMAIN stored \cup kept /\ \A b \in kept : log[b] = InFlight[b]
      /\ \A b \in DOMAIN stored \ kept : log[b] = stored[b]
  OBVIOUS
<1>3. /\ stored' = log /\ DOMAIN log \subseteq 0..(end - 1) /\ nextBatch' = end
      /\ status' = [b \in Batches |->
                      CASE b \in DOMAIN log -> "Committed"
                        [] b \in (0..(end - 1)) \ DOMAIN log -> "Aborted"
                        [] OTHER -> "None"]
      /\ digest' = [b \in Batches |->
                      CASE b \in DOMAIN log \cap (identified \cup chunks) -> log[b]
                        [] b \in (0..(end - 1)) \ DOMAIN log -> Hole
                        [] OTHER -> Unknown]
  BY <1>1, Zenon
<1> HIDE DEF log, Recovered
<1>4. /\ call' = Answered({r \in Requests : call[r].state = "waiting"}, "lost")
      /\ inbox' = <<>> /\ cursor' = NoFollowerEntry /\ buffered' = <<>> /\ work' = Resting
      /\ lane' = <<>> /\ scenario' = scenario
  BY DEF RestartFollower
<1>5. /\ DOMAIN log \subseteq Batches /\ \A b \in DOMAIN log : log[b] \in SentDigests(b)
      /\ \A b \in kept : status[b] = "Pending"
  <2>1. DOMAIN stored \subseteq Batches /\ \A b \in DOMAIN stored : stored[b] \in SentDigests(b)
    BY DEF ReplicaInv, ReplicaTypeOK, Log, LogSent
  <2>2. \A b \in kept : b \in Batches /\ status[b] = "Pending" /\ InFlight[b] \in SentDigests(b)
    BY InFlightFacts
  <2> QED BY <1>2, <2>1, <2>2
<1>6. \A b \in DOMAIN log : log[b] \in Digests
  BY <1>5, DigestFacts DEF ReplicaInv
<1>7. /\ status' \in [Batches -> {"None", "Pending", "Aborted", "Committed"}]
      /\ \A b \in Batches : status'[b] = "Committed" <=> b \in DOMAIN log
  BY <1>3
<1>8. \A b \in Batches : status'[b] # "None" => b < nextBatch'
  <2> SUFFICES ASSUME NEW b \in Batches, status'[b] # "None" PROVE b < end
    BY <1>3
  <2>1. b \in 0..(end - 1)
    BY <1>3
  <2> QED BY <2>1 DEF Batches
<1>9. digest' \in [Batches -> Digests \cup {Hole}]
  BY <1>3, <1>6 DEF Digests
<1>10. \A b \in DOMAIN log : digest'[b] = IF b \in identified \cup chunks THEN log[b] ELSE Unknown
  BY <1>3, <1>5
<1>11. /\ call' \in [Requests -> [state : CallStates, batch : Batches, content : Digests]]
       /\ CallsSent'
  <2>1. /\ {r \in Requests : call[r].state = "waiting"} \in SUBSET Requests
        /\ \A r \in {q \in Requests : call[q].state = "waiting"} : call[r].state # "new"
        /\ "lost" \in CallStates \ {"new"}
    BY DEF CallStates
  <2> QED BY ZenonT(100), <1>4, <2>1, AnsweredSent
<1>12. ReplicaTypeOK'
  <2>1. cursor' \in 0..(MaxBatch + 1)
    BY <1>4, ReplicaApplyAssumption DEF NoFollowerEntry
  <2> QED BY <1>3, <1>4, <1>5, <1>7, <1>9, <1>11, <2>1 DEF ReplicaInv, ReplicaTypeOK
<1>13. work' \notin Busy /\ work'.pc = "idle"
  BY <1>4, WorkShapes
<1>14. InboxSent' /\ BufferedSent' /\ LaneSent' /\ WorkSent'
  BY <1>4, <1>13 DEF InboxSent, BufferedSent, LaneSent, WorkSent
<1>15. Writes' /\ Window'
  BY <1>4, <1>8, <1>13 DEF Writes, Window
<1>16. LogSent'
  BY <1>3, <1>4, <1>5 DEF LogSent, SentDigests, identified, chunks
<1>17. LogDigests'
  BY <1>3, <1>4, <1>7, <1>10 DEF LogDigests, identified, chunks
<1>18. CommittedStays
  BY <1>2, <1>3, <1>5, <1>7 DEF CommittedStays
<1>19. AcksKept'
  <2>1. /\ {r \in Requests : call[r].state = "waiting"} \in SUBSET Requests
        /\ "lost" \in CallStates \ {"new", "ok"}
    BY DEF CallStates
  <2> QED BY <1>4, <1>18, <2>1, OtherAnswer
<1> QED BY <1>11, <1>12, <1>14, <1>15, <1>16, <1>17, <1>19 DEF ReplicaInv, Holders, Log

-----------------------------------------------------------------------------
LEMMA ReplicaInitInv == ReplicaInit => ReplicaInv
<1> SUFFICES ASSUME ReplicaInit PROVE ReplicaInv
  OBVIOUS
<1>1. /\ scenario \in ReplicaScenarios /\ inbox = <<>> /\ cursor = NoFollowerEntry
      /\ call = [r \in Requests |-> [state |-> "new", batch |-> 0, content |-> Unknown]]
      /\ buffered = <<>> /\ lane = <<>> /\ stored = <<>> /\ work = Resting
      /\ status = [b \in Batches |-> "None"] /\ digest = [b \in Batches |-> Unknown]
      /\ nextBatch = 0
  BY DEF ReplicaInit
<1>2. work \notin Busy /\ work.pc = "idle"
  BY <1>1, WorkShapes
<1>3. ReplicaTypeOK
  <2>1. 0 \in Batches /\ 0 \in 0..MaxBatch /\ NoFollowerEntry \in 0..(MaxBatch + 1)
    BY ReplicaApplyAssumption DEF Batches, NoFollowerEntry
  <2>2. call \in [Requests -> [state : CallStates, batch : Batches, content : Digests]]
    BY <1>1, <2>1 DEF CallStates, Digests
  <2> QED BY <1>1, <2>1, <2>2 DEF ReplicaTypeOK, Digests
<1>4. Holders
  BY <1>1, <1>2 DEF Holders, InboxSent, CallsSent, BufferedSent, LaneSent, WorkSent
<1>5. Writes /\ Window
  BY <1>1, <1>2 DEF Writes, Window
<1>6. Log
  BY <1>1 DEF Log, LogSent, LogDigests, AcksKept
<1> QED BY <1>3, <1>4, <1>5, <1>6 DEF ReplicaInv

LEMMA StutterInv ==
  ASSUME ReplicaInv, UNCHANGED replicaVars
  PROVE  ReplicaInv'
<1>1. UNCHANGED <<scenario, call, inbox, cursor, buffered, work, status, digest, nextBatch, lane,
                  stored>>
  BY ZenonT(100) DEF replicaVars
<1>2. ReplicaTypeOK' /\ Writes' /\ Window'
  BY ZenonT(100), <1>1 DEF ReplicaInv, ReplicaTypeOK, Writes, Window, guarded
<1>3. \A b : SentDigests(b)' = SentDigests(b)
  BY ZenonT(100), <1>1 DEF SentDigests, identified, chunks
<1>4. \A r, b, c : Matches(r, b, c)' <=> Matches(r, b, c)
  BY ZenonT(100), <1>1 DEF Matches
<1>5. Holders'
  <2>1. InboxSent' /\ CallsSent'
    BY ZenonT(100), <1>1, <1>3 DEF ReplicaInv, Holders, InboxSent, CallsSent
  <2>2. BufferedSent'
    BY ZenonT(100), <1>1, <1>3, <1>4 DEF ReplicaInv, Holders, BufferedSent
  <2>3. LaneSent'
    BY ZenonT(100), <1>1, <1>3, <1>4 DEF ReplicaInv, Holders, LaneSent
  <2>4. WorkSent'
    BY ZenonT(100), <1>1, <1>3, <1>4 DEF ReplicaInv, Holders, WorkSent
  <2> QED BY ZenonT(100), <2>1, <2>2, <2>3, <2>4 DEF Holders
<1>6. Log'
  <2>1. LogSent'
    BY ZenonT(100), <1>1, <1>3 DEF ReplicaInv, Log, LogSent
  <2>2. LogDigests'
    BY ZenonT(100), <1>1 DEF ReplicaInv, Log, LogDigests, identified, chunks
  <2>3. AcksKept'
    BY ZenonT(100), <1>1 DEF ReplicaInv, Log, AcksKept, Kept
  <2> QED BY ZenonT(100), <2>1, <2>2, <2>3 DEF Log
<1> QED BY <1>2, <1>5, <1>6 DEF ReplicaInv

LEMMA ReplicaNextInv == ReplicaInv /\ [ReplicaNext]_replicaVars => ReplicaInv'
<1> SUFFICES ASSUME ReplicaInv, [ReplicaNext]_replicaVars PROVE ReplicaInv'
  OBVIOUS
<1>1. CASE \E r \in Requests, b \in Batches, c \in Contents \cup {Zero} : SendBatch(r, b, c)
  BY <1>1, SendBatchInv
<1>2. CASE \E r \in Requests : AdmitInOrder(r) \/ AdmitRefused(r) \/ AdmitEarly(r)
  BY <1>2, AdmitInOrderInv, AdmitRefusedInv, AdmitEarlyInv
<1>3. CASE PlanDuplicate \/ PlanRefused \/ PlanNew \/ PlanRevived \/ DispatchFails
  BY <1>3, PlanDuplicateInv, PlanRefusedInv, PlanNewInv, PlanRevivedInv, DispatchFailsInv
<1>4. CASE PlanGuarded \/ GuardRefuses \/ GuardCommits \/ GuardedWritten \/ GuardedFails
  BY <1>4, PlanGuardedInv, PlanRefusedInv, GuardCommitsInv, GuardedWrittenInv, GuardedFailsInv
<1>5. CASE Drain
  BY <1>5, DrainInv
<1>6. CASE LaneStep
  BY <1>6, LaneWritesInv, LaneWritesNothingInv, LaneAmbiguousInv DEF LaneStep
<1>7. CASE RestartFollower
  BY <1>7, RestartFollowerInv
<1>8. CASE UNCHANGED replicaVars
  BY <1>8, StutterInv
<1> QED BY <1>1, <1>2, <1>3, <1>4, <1>5, <1>6, <1>7, <1>8 DEF ReplicaNext, AdmissionStep

\* The inductive invariant holds throughout, through every failure and restart.
THEOREM ReplicaInvariance == ReplicaSpec => []ReplicaInv
BY ReplicaInitInv, ReplicaNextInv, PTL DEF ReplicaSpec

\* A batch that a follower acknowledged is in its log with the digest that the leader
\* sent, through duplicates, conflicting resends, aborted and revived batches, ambiguous
\* writes and restarts that forget digests.
THEOREM AcksAlwaysStored == ReplicaSpec => []AckedStored
<1>1. ReplicaInv => AckedStored
  BY DEF ReplicaInv, Log, AcksKept, Kept, AckedStored
<1> QED BY <1>1, ReplicaInvariance, PTL

\* The window's cursor never passes the receiver's sequencer, and between two requests
\* every batch that waits in the window is past the cursor and within the permitted gap.
THEOREM WindowAlwaysOrdered == ReplicaSpec => []WindowOrdered
<1>1. ReplicaInv => WindowOrdered
  <2> SUFFICES ASSUME ReplicaInv PROVE WindowOrdered
    BY ZenonT(100)
  <2>1. /\ cursor # NoFollowerEntry => cursor <= nextBatch
        /\ \A b \in DOMAIN buffered :
             b >= cursor /\ b - cursor <= MaxGap /\ (b = cursor => work.pc = "drain")
        /\ cursor \in 0..(MaxBatch + 1) /\ DOMAIN buffered \subseteq Batches
    BY DEF ReplicaInv, Window, ReplicaTypeOK
  <2>2. work = Resting => work.pc # "drain"
    BY WorkShapes
  <2> QED BY <2>1, <2>2, ReplicaApplyAssumption DEF WindowOrdered, Batches
<1> QED BY <1>1, ReplicaInvariance, PTL
=============================================================================
