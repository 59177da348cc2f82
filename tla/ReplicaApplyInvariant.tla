----------------------- MODULE ReplicaApplyInvariant ------------------------
(***************************************************************************)
(* The invariant behind what a follower acknowledges and how its reorder   *)
(* window moves, and the steps of admission and planning that keep it, for *)
(* any numbers of requests, batches, failures and restarts.                *)
(*                                                                         *)
(* The invariant follows a request from the inbox to its answer: whoever   *)
(* holds it as a waiter (the window, the admission worker, a lane) holds   *)
(* it with its own batch and digest; a batch on its way to the log is      *)
(* Pending under the digest it will be stored with, so that nothing else   *)
(* can replace what was acknowledged; and only a batch that never had a    *)
(* digest is recovered without one.                                        *)
(***************************************************************************)
EXTENDS ReplicaApply, Integers, TLAPS

Digests == Contents \cup {Unknown, Zero}
CallStates == {"new", "waiting", "ok", "limited", "refused", "failed", "ambiguous", "lost"}
Held == [content : Digests, waiters : SUBSET Requests]
Busy == [pc : {"plan", "guarded", "writing"}, batch : Batches, content : Digests,
         waiters : SUBSET Requests, moves : BOOLEAN]
Draining == [pc |-> "drain"]

ReplicaTypeOK ==
  /\ scenario \in ReplicaScenarios
  /\ call \in [Requests -> [state : CallStates, batch : Batches, content : Digests]]
  /\ inbox \in Seq(Requests)
  /\ cursor \in 0..(MaxBatch + 1) /\ nextBatch \in 0..MaxBatch
  /\ status \in [Batches -> {"None", "Pending", "Aborted", "Committed"}]
  /\ digest \in [Batches -> Digests \cup {Hole}]
  /\ DOMAIN buffered \subseteq Batches /\ \A b \in DOMAIN buffered : buffered[b] \in Held
  /\ DOMAIN lane \subseteq Batches /\ \A b \in DOMAIN lane : lane[b] \in Held
  /\ DOMAIN stored \subseteq Batches
  /\ work \in Busy \cup {Resting, Draining}

\* Request r was sent, with digest c for batch b.
Matches(r, b, c) ==
  r \in Requests /\ call[r].state # "new" /\ call[r].batch = b /\ call[r].content = c

\* Requests are held as they were sent: by the inbox, the window, the lanes and
\* the admission worker.
InboxSent == \A i \in DOMAIN inbox : call[inbox[i]].state # "new"

CallsSent ==
  \A r \in Requests : call[r].state # "new" => call[r].content \in SentDigests(call[r].batch)

BufferedSent ==
  \A b \in DOMAIN buffered :
    /\ buffered[b].content \in SentDigests(b)
    /\ \A r \in buffered[b].waiters : Matches(r, b, buffered[b].content)

LaneSent ==
  \A b \in DOMAIN lane :
    /\ lane[b].content \in SentDigests(b)
    /\ \A r \in lane[b].waiters : Matches(r, b, lane[b].content)

WorkSent ==
  work \in Busy =>
    /\ work.content \in SentDigests(work.batch)
    /\ \A r \in work.waiters : Matches(r, work.batch, work.content)

Holders == InboxSent /\ CallsSent /\ BufferedSent /\ LaneSent /\ WorkSent

\* What is on its way to the log is Pending under its digest.
Writes ==
  /\ guarded => DOMAIN lane = {}
  /\ \A b \in DOMAIN lane : status[b] = "Pending" /\ digest[b] = lane[b].content
  /\ work.pc \in {"guarded", "writing"} => guarded
  /\ work.pc = "guarded" => status[work.batch] = "None" /\ work.batch = nextBatch
  /\ work.pc = "writing" => status[work.batch] = "Pending" /\ digest[work.batch] = work.content
  /\ \A b \in Batches : status[b] # "None" => b < nextBatch

\* Batch b is committed in the log with digest c.
Kept(b, c) == status[b] = "Committed" /\ b \in DOMAIN stored /\ stored[b] = c

LogSent == \A b \in DOMAIN stored : stored[b] \in SentDigests(b)

LogDigests ==
  \A b \in Batches : status[b] = "Committed" =>
    /\ b \in DOMAIN stored
    /\ \/ digest[b] = stored[b]
       \/ digest[b] = Unknown /\ b \notin identified \cup chunks

AcksKept == \A r \in Requests : call[r].state = "ok" => Kept(call[r].batch, call[r].content)

Log == LogSent /\ LogDigests /\ AcksKept

Window ==
  /\ cursor # NoFollowerEntry => cursor <= nextBatch
  /\ work.pc = "drain" => cursor # NoFollowerEntry
  /\ work \in Busy => (work.moves => work.batch = cursor)
  /\ \A b \in DOMAIN buffered :
       b >= cursor /\ b - cursor <= MaxGap /\ (b = cursor => work.pc = "drain")

ReplicaInv == ReplicaTypeOK /\ Holders /\ Writes /\ Log /\ Window

-----------------------------------------------------------------------------
LEMMA WorkShapes ==
  /\ Resting \notin Busy /\ Draining \notin Busy
  /\ Resting.pc = "idle" /\ Draining.pc = "drain"
  /\ \A w \in Busy : w.pc \in {"plan", "guarded", "writing"}
BY DEF Resting, Draining, Busy

LEMMA DigestFacts ==
  ASSUME ReplicaTypeOK, NEW b \in Batches
  PROVE  /\ SentDigests(b) \subseteq Digests \ {Unknown}
         /\ b \notin identified \cup chunks => SentDigests(b) = {Zero}
BY ReplicaApplyAssumption DEF SentDigests, Digests, Unknown, Zero, Hole

\* Answering some requests leaves what everybody holds as it was sent.
LEMMA AnsweredFacts ==
  ASSUME ReplicaTypeOK, NEW W \in SUBSET Requests, NEW st \in CallStates \ {"new"},
         call' = Answered(W, st)
  PROVE  /\ call' \in [Requests -> [state : CallStates, batch : Batches, content : Digests]]
         /\ \A r \in Requests : /\ call'[r].batch = call[r].batch
                                /\ call'[r].content = call[r].content
                                /\ call[r].state # "new" => call'[r].state # "new"
         /\ \A r \in Requests \ W : call'[r] = call[r]
         /\ \A r \in W : call'[r].state = st
BY DEF ReplicaTypeOK, Answered, CallStates

\* A request that was sent stays so.
Stays ==
  \A r \in Requests : call[r].state # "new" =>
    /\ call'[r].state # "new" /\ call'[r].batch = call[r].batch
    /\ call'[r].content = call[r].content

\* A request that waits for a batch waits for the same batch after the step.
LEMMA MatchesStay ==
  ASSUME Stays, NEW r, NEW b, NEW c, Matches(r, b, c)
  PROVE  Matches(r, b, c)'
  BY ZenonT(100) DEF Stays, Matches

LEMMA SentDigestsStay ==
  ASSUME scenario' = scenario, NEW b
  PROVE  SentDigests(b)' = SentDigests(b)
  BY ZenonT(100) DEF SentDigests, identified, chunks

\* Parts of the state that a step leaves alone stay as they were sent.
LEMMA HoldersStay ==
  ASSUME ReplicaInv, scenario' = scenario, Stays
  PROVE  /\ inbox' = inbox => InboxSent'
         /\ buffered' = buffered => BufferedSent'
         /\ lane' = lane => LaneSent'
         /\ work' = work \/ work' \notin Busy => WorkSent'
<1>1. inbox' = inbox => InboxSent'
  <2>1. inbox \in Seq(Requests)
    BY ZenonT(100) DEF ReplicaInv, ReplicaTypeOK
  <2>2. \A i \in DOMAIN inbox : inbox[i] \in Requests
    BY <2>1
  <2> QED BY ZenonT(100), <2>2 DEF ReplicaInv, Holders, Stays, InboxSent
<1>2. buffered' = buffered => BufferedSent'
  BY ZenonT(100), SentDigestsStay, MatchesStay DEF ReplicaInv, Holders, BufferedSent
<1>3. lane' = lane => LaneSent'
  BY ZenonT(100), SentDigestsStay, MatchesStay DEF ReplicaInv, Holders, LaneSent
<1>4. work' = work \/ work' \notin Busy => WorkSent'
  <2>1. CASE work' \notin Busy
    BY ZenonT(100), <2>1 DEF WorkSent
  <2>2. CASE work' = work
    BY ZenonT(100), <2>2, SentDigestsStay, MatchesStay DEF ReplicaInv, Holders, WorkSent
  <2> QED BY <2>1, <2>2
<1> QED BY <1>1, <1>2, <1>3, <1>4

\* What is committed in the log stays there.
CommittedStays ==
  \A b \in Batches : status[b] = "Committed" /\ b \in DOMAIN stored =>
    status'[b] = "Committed" /\ b \in DOMAIN stored' /\ stored'[b] = stored[b]

LEMMA AcksStay ==
  ASSUME ReplicaInv, CommittedStays,
         \A r \in Requests : call'[r].state = "ok" =>
           \/ call'[r] = call[r]
           \/ /\ status'[call'[r].batch] = "Committed" /\ call'[r].batch \in DOMAIN stored'
              /\ stored'[call'[r].batch] = call'[r].content
  PROVE  AcksKept'
<1> SUFFICES ASSUME NEW r \in Requests, call'[r].state = "ok", call'[r] = call[r]
             PROVE  /\ status'[call'[r].batch] = "Committed" /\ call'[r].batch \in DOMAIN stored'
                    /\ stored'[call'[r].batch] = call'[r].content
  BY DEF AcksKept, Kept
<1>1. call[r].batch \in Batches
  BY DEF ReplicaInv, ReplicaTypeOK
<1>2. Kept(call[r].batch, call[r].content)
  BY <1>1 DEF ReplicaInv, Log, AcksKept
<1> QED BY <1>1, <1>2 DEF Kept, CommittedStays

LEMMA AcksSame ==
  ASSUME ReplicaInv, UNCHANGED <<status, stored>>,
         \A r \in Requests : call'[r].state = "ok" => call'[r] = call[r]
  PROVE  AcksKept'
<1>1. CommittedStays
  BY DEF CommittedStays
<1> QED BY <1>1, AcksStay

-----------------------------------------------------------------------------
\* The leader and the admission worker's channel.
LEMMA SendBatchInv ==
  ASSUME ReplicaInv, NEW r \in Requests, NEW b \in Batches, NEW c, SendBatch(r, b, c)
  PROVE  ReplicaInv'
<1>1. /\ call[r].state = "new" /\ c \in SentDigests(b)
      /\ call' = [call EXCEPT ![r] = [state |-> "waiting", batch |-> b, content |-> c]]
      /\ inbox' = Append(inbox, r)
      /\ UNCHANGED <<scenario, cursor, buffered, work, status, digest, nextBatch, groupNext, tail,
                     lane, stored>>
  BY DEF SendBatch, coordVars, fixedVars
<1>2. /\ call \in [Requests -> [state : CallStates, batch : Batches, content : Digests]]
      /\ inbox \in Seq(Requests)
  BY DEF ReplicaInv, ReplicaTypeOK
<1>3. c \in Digests
  BY <1>1, DigestFacts DEF ReplicaInv
<1>4. /\ call'[r] = [state |-> "waiting", batch |-> b, content |-> c]
      /\ \A q \in Requests \ {r} : call'[q] = call[q]
  BY <1>1, <1>2
<1>5. Stays
  BY <1>1, <1>4 DEF Stays
<1>6. ReplicaTypeOK'
  BY <1>1, <1>2, <1>3 DEF ReplicaInv, ReplicaTypeOK, CallStates
<1>7. BufferedSent' /\ LaneSent' /\ WorkSent'
  BY <1>1, <1>5, HoldersStay
<1>8. CallsSent'
  <2>1. SentDigests(b)' = SentDigests(b) /\ \A x : SentDigests(x)' = SentDigests(x)
    BY <1>1 DEF SentDigests, identified, chunks
  <2> QED BY <1>1, <1>4, <2>1 DEF ReplicaInv, Holders, CallsSent
<1>9. InboxSent'
  <2>1. \A i \in 1..Len(inbox) : inbox[i] \in Requests /\ call[inbox[i]].state # "new"
    BY <1>2 DEF ReplicaInv, Holders, InboxSent
  <2>2. /\ DOMAIN inbox' = 1..(Len(inbox) + 1) /\ Len(inbox) \in Nat /\ inbox'[Len(inbox) + 1] = r
        /\ \A i \in 1..Len(inbox) : inbox'[i] = inbox[i]
    BY <1>1, <1>2
  <2> QED BY <1>4, <1>5, <2>1, <2>2 DEF InboxSent, Stays
<1>10. Writes' /\ Window' /\ LogSent' /\ LogDigests'
  BY <1>1 DEF ReplicaInv, Writes, Window, Log, LogSent, LogDigests, guarded, chunks, identified,
              SentDigests
<1>11. AcksKept'
  <2>1. \A q \in Requests : call'[q].state = "ok" => call'[q] = call[q]
    BY <1>4
  <2> QED BY <1>1, <2>1, AcksSame
<1> QED BY <1>6, <1>7, <1>8, <1>9, <1>10, <1>11 DEF ReplicaInv, Holders, Log

\* What the admission worker takes from its channel.
LEMMA TakeFacts ==
  ASSUME ReplicaInv, NEW r \in Requests, TakeReplica(r)
  PROVE  /\ work = Resting /\ work.pc = "idle" /\ work \notin Busy
         /\ inbox' \in Seq(Requests) /\ \A i \in DOMAIN inbox' : call[inbox'[i]].state # "new"
         /\ call[r].state # "new" /\ call[r].batch \in Batches
         /\ call[r].content \in Digests /\ call[r].content \in SentDigests(call[r].batch)
         /\ cursor' = Expected /\ cursor' \in 0..MaxBatch /\ cursor' <= nextBatch
         /\ \A b \in DOMAIN buffered : b > cursor' /\ b - cursor' <= MaxGap
<1>1. /\ work = Resting /\ inbox # <<>> /\ r = Head(inbox) /\ inbox' = Tail(inbox)
      /\ cursor' = Expected
  BY DEF TakeReplica
<1>2. inbox \in Seq(Requests) /\ cursor \in 0..(MaxBatch + 1) /\ nextBatch \in 0..MaxBatch
      /\ DOMAIN buffered \subseteq 0..(MaxBatch - 1) /\ MaxBatch \in Nat
  BY ReplicaApplyAssumption DEF ReplicaInv, ReplicaTypeOK, Batches
<1>3. work.pc = "idle" /\ work \notin Busy
  BY <1>1, WorkShapes
<1>4. \A i \in 1..Len(inbox) : call[inbox[i]].state # "new"
  BY <1>2 DEF ReplicaInv, Holders, InboxSent
<1>5. /\ Len(inbox) \in Nat \ {0} /\ r = inbox[1] /\ inbox' \in Seq(Requests)
      /\ DOMAIN inbox' = 1..(Len(inbox) - 1)
      /\ \A i \in 1..(Len(inbox) - 1) : inbox'[i] = inbox[i + 1]
  BY <1>1, <1>2
<1>6. call[r].state # "new" /\ \A i \in DOMAIN inbox' : call[inbox'[i]].state # "new"
  <2>1. ASSUME NEW i \in DOMAIN inbox' PROVE i + 1 \in 1..Len(inbox) /\ inbox'[i] = inbox[i + 1]
    BY <1>5, <2>1
  <2>2. 1 \in 1..Len(inbox)
    BY <1>5
  <2> QED BY ZenonT(100), <1>4, <1>5, <2>1, <2>2
<1>7. /\ call[r].batch \in Batches /\ call[r].content \in Digests
      /\ call[r].content \in SentDigests(call[r].batch)
  BY <1>6 DEF ReplicaInv, ReplicaTypeOK, Holders, CallsSent
<1>8. /\ cursor # MaxBatch + 1 => cursor <= nextBatch
      /\ \A b \in DOMAIN buffered : b >= cursor /\ b - cursor <= MaxGap /\ b # cursor
  BY <1>3 DEF ReplicaInv, Window, NoFollowerEntry
<1>9. cursor = MaxBatch + 1 => DOMAIN buffered = {}
  <2> SUFFICES ASSUME cursor = MaxBatch + 1, NEW b \in DOMAIN buffered PROVE FALSE
    BY ZenonT(100)
  <2>1. b \in 0..(MaxBatch - 1) /\ b >= MaxBatch + 1
    BY <1>2, <1>8
  <2> QED BY <1>2, <2>1
<1>10. cursor' = IF cursor = MaxBatch + 1 THEN nextBatch ELSE cursor
  BY <1>1 DEF Expected, NoFollowerEntry
<1>11. cursor' \in 0..MaxBatch /\ cursor' <= nextBatch
  BY <1>2, <1>8, <1>10
<1>12. \A b \in DOMAIN buffered : b > cursor' /\ b - cursor' <= MaxGap
  BY <1>2, <1>8, <1>9, <1>10
<1> QED BY <1>1, <1>3, <1>5, <1>6, <1>7, <1>11, <1>12

\* Coordinator, lanes and log are as before.
LEMMA LogUntouched ==
  ASSUME ReplicaInv,
         UNCHANGED <<scenario, status, digest, nextBatch, lane, stored>>,
         work'.pc \notin {"guarded", "writing"}
  PROVE  Writes' /\ LogSent' /\ LogDigests'
BY DEF ReplicaInv, Writes, Log, LogSent, LogDigests, guarded, chunks, identified, SentDigests

LEMMA AdmitInOrderInv ==
  ASSUME ReplicaInv, NEW r \in Requests, AdmitInOrder(r)
  PROVE  ReplicaInv'
<1>1. /\ TakeReplica(r) /\ call[r].batch <= Expected
      /\ work' = [pc |-> "plan", batch |-> call[r].batch, content |-> call[r].content,
                  waiters |-> {r}, moves |-> call[r].batch = Expected]
      /\ UNCHANGED <<scenario, call, buffered, status, digest, nextBatch, lane, stored>>
  BY DEF AdmitInOrder, coordVars, fixedVars
<1>2. /\ inbox' \in Seq(Requests) /\ \A i \in DOMAIN inbox' : call[inbox'[i]].state # "new"
      /\ call[r].state # "new" /\ call[r].batch \in Batches
      /\ call[r].content \in Digests /\ call[r].content \in SentDigests(call[r].batch)
      /\ cursor' = Expected /\ cursor' \in 0..MaxBatch /\ cursor' <= nextBatch
      /\ \A b \in DOMAIN buffered : b > cursor' /\ b - cursor' <= MaxGap
  BY <1>1, TakeFacts
<1>3. (call[r].batch = Expected) \in BOOLEAN
  OBVIOUS
<1>4. /\ work' \in Busy /\ work'.pc = "plan" /\ work'.batch = call[r].batch
      /\ work'.content = call[r].content /\ work'.waiters = {r}
      /\ work'.moves => work'.batch = Expected
  BY ZenonT(100), <1>1, <1>2, <1>3 DEF Busy
<1>5. ReplicaTypeOK'
  <2>1. cursor' \in 0..(MaxBatch + 1)
    BY <1>2, ReplicaApplyAssumption
  <2> QED BY <1>1, <1>2, <1>4, <2>1 DEF ReplicaInv, ReplicaTypeOK
<1>6. Stays
  BY <1>1 DEF Stays
<1>7. BufferedSent' /\ LaneSent'
  BY <1>1, <1>6, HoldersStay
<1>8. WorkSent' /\ InboxSent' /\ CallsSent'
  BY <1>1, <1>2, <1>4 DEF ReplicaInv, Holders, WorkSent, InboxSent, CallsSent, Matches,
                          SentDigests, identified, chunks
<1>9. Writes' /\ LogSent' /\ LogDigests'
  BY <1>1, <1>4, LogUntouched
<1>10. AcksKept'
  BY <1>1, AcksSame
<1>11. Window'
  <2>1. \A b \in DOMAIN buffered : b > cursor' => b >= cursor' /\ b # cursor'
    BY <1>2 DEF ReplicaInv, ReplicaTypeOK, Batches
  <2> QED BY <1>1, <1>2, <1>4, <2>1 DEF ReplicaInv, Window
<1> QED BY <1>5, <1>7, <1>8, <1>9, <1>10, <1>11 DEF ReplicaInv, Holders, Log

\* Some requests that were sent are answered.
LEMMA AnsweredSent ==
  ASSUME ReplicaInv, scenario' = scenario, NEW W \in SUBSET Requests,
         \A r \in W : call[r].state # "new", NEW st \in CallStates \ {"new"},
         call' = Answered(W, st)
  PROVE  /\ call' \in [Requests -> [state : CallStates, batch : Batches, content : Digests]]
         /\ Stays /\ CallsSent'
         /\ \A r \in Requests : /\ call'[r].batch = call[r].batch
                                /\ call'[r].content = call[r].content
         /\ \A r \in Requests \ W : call'[r] = call[r]
         /\ \A r \in W : call'[r].state = st
<1>1. /\ call' \in [Requests -> [state : CallStates, batch : Batches, content : Digests]]
      /\ \A r \in Requests : /\ call'[r].batch = call[r].batch
                             /\ call'[r].content = call[r].content
                             /\ call[r].state # "new" => call'[r].state # "new"
      /\ \A r \in Requests \ W : call'[r] = call[r]
      /\ \A r \in W : call'[r].state = st
  BY AnsweredFacts DEF ReplicaInv
<1>2. Stays
  BY <1>1 DEF Stays
<1>3. \A x : SentDigests(x)' = SentDigests(x)
  BY DEF SentDigests, identified, chunks
<1>4. CallsSent'
  <2> SUFFICES ASSUME NEW r \in Requests, call'[r].state # "new"
               PROVE  call'[r].content \in SentDigests(call'[r].batch)
    BY <1>3 DEF CallsSent
  <2>1. call[r].state # "new"
    BY <1>1
  <2> QED BY <1>1, <2>1 DEF ReplicaInv, Holders, CallsSent
<1> QED BY <1>1, <1>2, <1>4

\* A request that is answered as it is taken.
LEMMA TakenAnswered ==
  ASSUME ReplicaInv, NEW r \in Requests, NEW st \in CallStates \ {"new", "ok"},
         call[r].state # "new", call' = Answered({r}, st),
         UNCHANGED <<scenario, work, buffered, status, digest, nextBatch, lane, stored>>,
         inbox' \in Seq(Requests), \A i \in DOMAIN inbox' : call[inbox'[i]].state # "new",
         cursor' \in 0..MaxBatch, cursor' <= nextBatch,
         \A b \in DOMAIN buffered : b > cursor' /\ b - cursor' <= MaxGap,
         work.pc = "idle", work \notin Busy
  PROVE  ReplicaInv'
<1>1. /\ call' \in [Requests -> [state : CallStates, batch : Batches, content : Digests]]
      /\ Stays /\ CallsSent'
      /\ \A q \in Requests \ {r} : call'[q] = call[q]
      /\ call'[r].state = st
  <2>1. {r} \in SUBSET Requests /\ \A q \in {r} : call[q].state # "new"
    OBVIOUS
  <2>2. st \in CallStates \ {"new"}
    OBVIOUS
  <2>3. /\ call' \in [Requests -> [state : CallStates, batch : Batches, content : Digests]]
        /\ Stays /\ CallsSent'
        /\ \A q \in Requests \ {r} : call'[q] = call[q]
        /\ \A q \in {r} : call'[q].state = st
    BY ZenonT(100), <2>1, <2>2, AnsweredSent
  <2> QED BY ZenonT(100), <2>3
<1>2. BufferedSent' /\ LaneSent' /\ WorkSent'
  BY <1>1, HoldersStay
<1>3. InboxSent'
  <2>1. \A i \in DOMAIN inbox' : inbox'[i] \in Requests
    OBVIOUS
  <2> QED BY ZenonT(100), <1>1, <2>1 DEF InboxSent, Stays
<1>4. ReplicaTypeOK'
  <2>1. cursor' \in 0..(MaxBatch + 1)
    BY ReplicaApplyAssumption
  <2> QED BY ZenonT(100), <1>1, <2>1 DEF ReplicaInv, ReplicaTypeOK
<1>5. Writes' /\ LogSent' /\ LogDigests'
  BY LogUntouched
<1>6. AcksKept'
  <2>1. \A q \in Requests : call'[q].state = "ok" => call'[q] = call[q]
    BY ZenonT(100), <1>1
  <2> QED BY ZenonT(100), <2>1, AcksSame
<1>7. Window'
  <2>1. \A b \in DOMAIN buffered : b > cursor' => b >= cursor' /\ b # cursor'
    BY DEF ReplicaInv, ReplicaTypeOK, Batches
  <2> QED BY <2>1 DEF ReplicaInv, Window
<1> QED BY <1>1, <1>2, <1>3, <1>4, <1>5, <1>6, <1>7 DEF ReplicaInv, Holders, Log

LEMMA AdmitRefusedInv ==
  ASSUME ReplicaInv, NEW r \in Requests, AdmitRefused(r)
  PROVE  ReplicaInv'
<1>1. /\ TakeReplica(r) /\ call' = Answered({r}, "limited")
      /\ UNCHANGED <<scenario, work, buffered, status, digest, nextBatch, lane, stored>>
  BY DEF AdmitRefused, coordVars, fixedVars
<1>2. /\ inbox' \in Seq(Requests) /\ \A i \in DOMAIN inbox' : call[inbox'[i]].state # "new"
      /\ cursor' = Expected /\ cursor' \in 0..MaxBatch /\ cursor' <= nextBatch
      /\ \A b \in DOMAIN buffered : b > cursor' /\ b - cursor' <= MaxGap
      /\ work.pc = "idle" /\ work \notin Busy /\ call[r].state # "new"
  BY <1>1, TakeFacts
<1> QED BY <1>1, <1>2, TakenAnswered DEF CallStates

LEMMA AdmitEarlyInv ==
  ASSUME ReplicaInv, NEW r \in Requests, AdmitEarly(r)
  PROVE  ReplicaInv'
<1>1. /\ TakeReplica(r) /\ call[r].batch > Expected /\ ~OverLimit(call[r].batch)
      /\ UNCHANGED <<scenario, work, status, digest, nextBatch, lane, stored>>
  BY DEF AdmitEarly, coordVars, fixedVars
<1>2. /\ inbox' \in Seq(Requests) /\ \A i \in DOMAIN inbox' : call[inbox'[i]].state # "new"
      /\ call[r].state # "new" /\ call[r].batch \in Batches
      /\ call[r].content \in Digests /\ call[r].content \in SentDigests(call[r].batch)
      /\ cursor' = Expected /\ cursor' \in 0..MaxBatch /\ cursor' <= nextBatch
      /\ \A b \in DOMAIN buffered : b > cursor' /\ b - cursor' <= MaxGap
      /\ work.pc = "idle" /\ work \notin Busy
  BY ZenonT(100), <1>1, TakeFacts
<1>3. CASE call' = Answered({r}, "refused") /\ UNCHANGED buffered
  BY <1>1, <1>2, <1>3, TakenAnswered DEF CallStates
<1>4. ASSUME UNCHANGED call, DOMAIN buffered' = DOMAIN buffered \cup {call[r].batch},
             call[r].batch \notin DOMAIN buffered \/ UNCHANGED DOMAIN buffered,
             buffered'[call[r].batch].content = call[r].content,
             buffered'[call[r].batch] \in Held,
             \A q \in buffered'[call[r].batch].waiters :
               Matches(q, call[r].batch, call[r].content),
             \A b \in DOMAIN buffered \ {call[r].batch} : buffered'[b] = buffered[b]
      PROVE  ReplicaInv'
  <2>1. ReplicaTypeOK'
    <3>1. cursor' \in 0..(MaxBatch + 1)
      BY <1>2, ReplicaApplyAssumption
    <3> QED BY <1>1, <1>2, <1>4, <3>1 DEF ReplicaInv, ReplicaTypeOK
  <2>2. Stays
    BY <1>4 DEF Stays
  <2>3. LaneSent' /\ WorkSent'
    BY <1>1, <2>2, HoldersStay
  <2>4. InboxSent' /\ CallsSent'
    BY <1>1, <1>2, <1>4 DEF ReplicaInv, Holders, InboxSent, CallsSent, SentDigests, identified,
                            chunks
  <2>5. BufferedSent'
    <3>1. scenario' = scenario /\ call[r].content \in SentDigests(call[r].batch)
      BY ZenonT(100), <1>1, <1>2 DEF ReplicaInv, Holders, CallsSent
    <3>2. ASSUME NEW b \in DOMAIN buffered'
          PROVE  /\ buffered'[b].content \in SentDigests(b)
                 /\ \A q \in buffered'[b].waiters : Matches(q, b, buffered'[b].content)
      <4>1. CASE b = call[r].batch
        BY ZenonT(100), <1>4, <3>1, <4>1
      <4>2. CASE b # call[r].batch
        <5>1. b \in DOMAIN buffered /\ buffered'[b] = buffered[b]
          BY ZenonT(100), <1>4, <3>2, <4>2
        <5> QED BY ZenonT(100), <5>1 DEF ReplicaInv, Holders, BufferedSent
      <4> QED BY <4>1, <4>2
    <3> QED BY ZenonT(100), <2>2, <3>1, <3>2, SentDigestsStay, MatchesStay DEF BufferedSent
  <2>6. Writes' /\ LogSent' /\ LogDigests'
    BY <1>1, <1>2, LogUntouched
  <2>7. AcksKept'
    BY <1>1, <1>4, AcksSame
  <2>8. Window'
    <3>1. DOMAIN buffered \subseteq Batches
      BY DEF ReplicaInv, ReplicaTypeOK
    <3>4. call[r].batch > cursor' /\ call[r].batch - cursor' <= MaxGap
      <4>1. call[r].batch > cursor' /\ ~(call[r].batch - cursor' > MaxGap)
        BY <1>1, <1>2 DEF OverLimit
      <4> QED BY <1>2, <4>1, ReplicaApplyAssumption DEF Batches
    <3>5. \A b \in DOMAIN buffered' : b > cursor' /\ b - cursor' <= MaxGap /\ b \in Batches
      BY <1>2, <1>4, <3>1, <3>4
    <3>6. \A b \in DOMAIN buffered' : b >= cursor' /\ b - cursor' <= MaxGap /\ b # cursor'
      <4> TAKE b \in DOMAIN buffered'
      <4>1. b > cursor' /\ b - cursor' <= MaxGap /\ b \in Nat /\ cursor' \in Nat
        BY <1>2, <3>5 DEF Batches
      <4> QED BY <4>1
    <3> QED BY <1>1, <1>2, <3>6 DEF Window
  <2> QED BY ZenonT(100), <2>1, <2>3, <2>4, <2>5, <2>6, <2>7, <2>8 DEF ReplicaInv, Holders, Log
<1>5. CASE /\ call[r].batch \notin DOMAIN buffered /\ UNCHANGED call
           /\ buffered' = With(buffered, call[r].batch,
                               [content |-> call[r].content, waiters |-> {r}])
  <2>1. /\ DOMAIN buffered' = DOMAIN buffered \cup {call[r].batch}
        /\ buffered'[call[r].batch] = [content |-> call[r].content, waiters |-> {r}]
        /\ \A b \in DOMAIN buffered \ {call[r].batch} : buffered'[b] = buffered[b]
    <3> DEFINE v == [content |-> call[r].content, waiters |-> {r}]
    <3>1. buffered' = With(buffered, call[r].batch, v)
      BY <1>5
    <3> HIDE DEF v
    <3>2. /\ DOMAIN buffered' = DOMAIN buffered \cup {call[r].batch}
          /\ buffered'[call[r].batch] = v
          /\ \A b \in DOMAIN buffered \ {call[r].batch} : buffered'[b] = buffered[b]
      BY <3>1 DEF With
    <3> QED BY <3>2 DEF v
  <2>2. /\ buffered'[call[r].batch].content = call[r].content
        /\ buffered'[call[r].batch].waiters = {r} /\ buffered'[call[r].batch] \in Held
    BY <1>2, <2>1 DEF Held
  <2>3. Matches(r, call[r].batch, call[r].content)
    BY <1>2 DEF Matches
  <2> QED BY ZenonT(100), <1>4, <1>5, <2>1, <2>2, <2>3
<1>6. CASE /\ call[r].batch \in DOMAIN buffered /\ UNCHANGED call
           /\ buffered[call[r].batch].content = call[r].content
           /\ buffered' = [buffered EXCEPT ![call[r].batch].waiters = @ \cup {r}]
  <2>1. /\ DOMAIN buffered' = DOMAIN buffered
        /\ buffered'[call[r].batch] = [buffered[call[r].batch] EXCEPT !.waiters = @ \cup {r}]
        /\ \A b \in DOMAIN buffered \ {call[r].batch} : buffered'[b] = buffered[b]
    BY <1>6
  <2>2. buffered[call[r].batch] \in Held
    BY <1>6 DEF ReplicaInv, ReplicaTypeOK
  <2>3. /\ buffered'[call[r].batch].content = call[r].content
        /\ buffered'[call[r].batch].waiters = buffered[call[r].batch].waiters \cup {r}
        /\ buffered'[call[r].batch] \in Held
    BY <1>6, <2>1, <2>2 DEF Held
  <2>4. \A q \in buffered[call[r].batch].waiters : Matches(q, call[r].batch, call[r].content)
    BY <1>6 DEF ReplicaInv, Holders, BufferedSent
  <2>5. Matches(r, call[r].batch, call[r].content)
    BY <1>2 DEF Matches
  <2> QED BY <1>4, <1>6, <2>1, <2>3, <2>4, <2>5
<1> QED BY <1>3, <1>5, <1>6 DEF AdmitEarly

-----------------------------------------------------------------------------
\* Reservation: the admission worker is at a batch.
LEMMA BusyFacts ==
  ASSUME ReplicaInv, work.pc \in {"plan", "guarded", "writing"}
  PROVE  /\ work \in Busy /\ work.batch \in Batches /\ work.content \in Digests
         /\ work.content \in SentDigests(work.batch) /\ work.moves \in BOOLEAN
         /\ work.waiters \in SUBSET Requests
         /\ \A r \in work.waiters : Matches(r, work.batch, work.content) /\ call[r].state # "new"
<1>1. work \in Busy
  BY WorkShapes DEF ReplicaInv, ReplicaTypeOK
<1>2. /\ work.batch \in Batches /\ work.content \in Digests /\ work.moves \in BOOLEAN
      /\ work.waiters \in SUBSET Requests
  BY <1>1, Zenon DEF Busy
<1>3. /\ work.content \in SentDigests(work.batch)
      /\ \A r \in work.waiters : Matches(r, work.batch, work.content)
  BY <1>1, Zenon DEF ReplicaInv, Holders, WorkSent
<1>4. \A r \in work.waiters : call[r].state # "new"
  BY <1>3, Zenon DEF Matches
<1> QED BY <1>1, <1>2, <1>3, <1>4, Zenon

\* Requests that were sent are answered, and the worker holds nothing any more.
LEMMA HandsOver ==
  ASSUME ReplicaInv, UNCHANGED <<scenario, inbox, buffered>>, lane' = lane \/ LaneSent',
         NEW W \in SUBSET Requests, \A r \in W : call[r].state # "new",
         NEW st \in CallStates \ {"new"}, call' = Answered(W, st),
         work' = work \/ work' \in {Resting, Draining}
  PROVE  /\ Holders'
         /\ call' \in [Requests -> [state : CallStates, batch : Batches, content : Digests]]
<1>1. /\ call' \in [Requests -> [state : CallStates, batch : Batches, content : Digests]]
      /\ Stays /\ CallsSent'
  BY AnsweredSent
<1>2. InboxSent' /\ BufferedSent'
  BY <1>1, HoldersStay
<1>3. LaneSent'
  BY <1>1, HoldersStay
<1>4. WorkSent'
  BY <1>1, HoldersStay, WorkShapes
<1> QED BY <1>1, <1>2, <1>3, <1>4 DEF Holders

\* Nobody is told that a batch is stored.
LEMMA OtherAnswer ==
  ASSUME ReplicaInv, CommittedStays, NEW W \in SUBSET Requests,
         NEW st \in CallStates \ {"new", "ok"}, call' = Answered(W, st)
  PROVE  AcksKept'
<1>1. /\ \A r \in Requests \ W : call'[r] = call[r]
      /\ \A r \in W : call'[r].state = st
  BY AnsweredFacts DEF ReplicaInv
<1>2. \A r \in Requests : call'[r].state = "ok" => call'[r] = call[r]
  BY <1>1
<1> QED BY <1>2, AcksStay

\* Those who are told so sent what the log holds.
LEMMA OkAnswer ==
  ASSUME ReplicaInv, CommittedStays, NEW W \in SUBSET Requests, NEW b, NEW c,
         \A r \in W : Matches(r, b, c), call' = Answered(W, "ok"),
         status'[b] = "Committed", b \in DOMAIN stored', stored'[b] = c
  PROVE  AcksKept'
<1>1. "ok" \in CallStates \ {"new"}
  BY DEF CallStates
<1>2. /\ \A r \in Requests \ W : call'[r] = call[r]
      /\ \A r \in Requests : call'[r].batch = call[r].batch /\ call'[r].content = call[r].content
  BY <1>1, AnsweredFacts DEF ReplicaInv
<1>3. \A r \in W : call'[r].batch = b /\ call'[r].content = c
  BY <1>2 DEF Matches
<1>4. \A r \in Requests : call'[r].state = "ok" =>
        \/ call'[r] = call[r]
        \/ /\ status'[call'[r].batch] = "Committed" /\ call'[r].batch \in DOMAIN stored'
           /\ stored'[call'[r].batch] = call'[r].content
  BY <1>2, <1>3
<1> QED BY <1>4, AcksStay

\* The worker goes on to the next batch, or to its channel.
LEMMA AcceptWindow ==
  ASSUME ReplicaInv, work \in Busy, work' = Accepted, buffered' = buffered,
         cursor' = IF work.moves THEN cursor + 1 ELSE cursor,
         nextBatch' \in 0..MaxBatch, nextBatch <= nextBatch', work.batch < nextBatch'
  PROVE  Window' /\ cursor' \in 0..(MaxBatch + 1) /\ work' \in {Resting, Draining}
<1>1. /\ work.batch \in 0..(MaxBatch - 1) /\ work.moves \in BOOLEAN /\ work.pc # "drain"
      /\ work.moves => work.batch = cursor
  BY DEF Busy, Batches, ReplicaInv, Window
<1>2. /\ MaxBatch \in Nat /\ MaxGap \in Nat /\ cursor \in 0..(MaxBatch + 1)
      /\ nextBatch \in 0..MaxBatch /\ DOMAIN buffered \subseteq 0..(MaxBatch - 1)
  BY ReplicaApplyAssumption DEF ReplicaInv, ReplicaTypeOK, Batches
<1>3. /\ cursor # MaxBatch + 1 => cursor <= nextBatch
      /\ \A b \in DOMAIN buffered : b >= cursor /\ b - cursor <= MaxGap /\ b # cursor
  BY <1>1 DEF ReplicaInv, Window, NoFollowerEntry
<1>4. CASE work.moves
  <2>1. work' = Draining /\ work'.pc = "drain" /\ work' \notin Busy
    BY <1>4, WorkShapes DEF Accepted, Draining
  <2>2. /\ cursor' = cursor + 1 /\ cursor \in 0..(MaxBatch - 1)
        /\ cursor + 1 <= nextBatch' /\ cursor' # MaxBatch + 1
    BY <1>1, <1>2, <1>4
  <2>3. \A b \in DOMAIN buffered : b >= cursor' /\ b - cursor' <= MaxGap
    BY <1>2, <1>3, <2>2
  <2> QED BY <1>2, <1>3, <2>1, <2>2, <2>3 DEF Window, NoFollowerEntry
<1>5. CASE ~work.moves
  <2>1. work' = Resting /\ work'.pc = "idle" /\ work' \notin Busy
    BY <1>5, WorkShapes DEF Accepted
  <2>2. cursor' = cursor /\ (cursor # MaxBatch + 1 => cursor <= nextBatch')
    BY <1>2, <1>3, <1>5
  <2> QED BY <1>2, <1>3, <2>1, <2>2 DEF Window, NoFollowerEntry
<1> QED BY <1>1, <1>4, <1>5

LEMMA RestWindow ==
  ASSUME ReplicaInv, work \in Busy, work' = Resting, UNCHANGED <<cursor, buffered>>,
         nextBatch' \in 0..MaxBatch, nextBatch <= nextBatch'
  PROVE  Window'
<1>1. work.pc # "drain" /\ work'.pc = "idle" /\ work' \notin Busy
  BY WorkShapes
<1>2. /\ cursor \in 0..(MaxBatch + 1) /\ nextBatch \in 0..MaxBatch /\ MaxBatch \in Nat
  BY ReplicaApplyAssumption DEF ReplicaInv, ReplicaTypeOK
<1>3. cursor # NoFollowerEntry => cursor <= nextBatch'
  BY <1>2 DEF ReplicaInv, Window
<1> QED BY <1>1, <1>3 DEF ReplicaInv, Window

\* A batch that is not committed is reserved or aborted: the log is as it was.
LEMMA NotCommitted ==
  ASSUME ReplicaInv, UNCHANGED <<scenario, stored>>, NEW b \in Batches, status[b] # "Committed",
         NEW s \in {"Pending", "Aborted"}, status' = [status EXCEPT ![b] = s],
         digest' = digest \/ digest' = [digest EXCEPT ![b] = work.content]
  PROVE  LogSent' /\ LogDigests' /\ CommittedStays
<1>1. /\ status \in [Batches -> {"None", "Pending", "Aborted", "Committed"}]
      /\ digest \in [Batches -> Digests \cup {Hole}]
  BY Zenon DEF ReplicaInv, ReplicaTypeOK
<1>2. \A x \in Batches : status'[x] = "Committed" =>
        status[x] = "Committed" /\ digest'[x] = digest[x]
  BY <1>1
<1>3. \A x \in Batches : status[x] = "Committed" => status'[x] = "Committed"
  BY <1>1
<1>4. LogSent'
  BY DEF ReplicaInv, Log, LogSent, SentDigests, identified, chunks
<1>5. LogDigests'
  BY <1>2 DEF ReplicaInv, Log, LogDigests, identified, chunks
<1>6. CommittedStays
  BY <1>3 DEF CommittedStays
<1> QED BY <1>4, <1>5, <1>6

\* A batch is refused: its waiters are told, and nothing else happens.
LEMMA RefusedInv ==
  ASSUME ReplicaInv, work.pc \in {"plan", "guarded", "writing"},
         call' = Answered(work.waiters, "refused"), work' = Resting,
         UNCHANGED <<scenario, inbox, cursor, buffered, status, digest, nextBatch, lane, stored>>
  PROVE  ReplicaInv'
<1>1. /\ work \in Busy /\ work.waiters \in SUBSET Requests
      /\ \A r \in work.waiters : call[r].state # "new"
  BY BusyFacts, Zenon
<1>2. "refused" \in CallStates \ {"new", "ok"}
  BY DEF CallStates
<1>3. /\ Holders'
      /\ call' \in [Requests -> [state : CallStates, batch : Batches, content : Digests]]
  BY <1>1, <1>2, HandsOver
<1>4. ReplicaTypeOK'
  BY <1>3 DEF ReplicaInv, ReplicaTypeOK
<1>5. Writes' /\ LogSent' /\ LogDigests'
  BY LogUntouched, WorkShapes
<1>6. CommittedStays
  BY DEF CommittedStays
<1>7. AcksKept'
  BY ZenonT(100), <1>1, <1>2, <1>6, OtherAnswer
<1>8. Window'
  <2>1. nextBatch' \in 0..MaxBatch /\ nextBatch <= nextBatch'
    BY ReplicaApplyAssumption DEF ReplicaInv, ReplicaTypeOK
  <2> QED BY ZenonT(100), <1>1, <2>1, RestWindow
<1> QED BY <1>3, <1>4, <1>5, <1>7, <1>8 DEF ReplicaInv, Log

LEMMA PlanRefusedInv ==
  ASSUME ReplicaInv, PlanRefused \/ GuardRefuses
  PROVE  ReplicaInv'
<1>1. /\ work.pc \in {"plan", "guarded", "writing"}
      /\ call' = Answered(work.waiters, "refused") /\ work' = Resting
      /\ UNCHANGED <<scenario, inbox, cursor, buffered, status, digest, nextBatch, lane, stored>>
  BY DEF PlanRefused, GuardRefuses, Planning, coordVars, fixedVars
<1> QED BY <1>1, RefusedInv

LEMMA PlanDuplicateInv ==
  ASSUME ReplicaInv, PlanDuplicate
  PROVE  ReplicaInv'
<1>1. /\ work.pc = "plan" /\ status[work.batch] = "Committed"
      /\ digest[work.batch] \in {Unknown, work.content}
      /\ call' = Answered(work.waiters, "ok") /\ work' = Accepted
      /\ cursor' = IF work.moves THEN cursor + 1 ELSE cursor
      /\ UNCHANGED <<scenario, inbox, buffered, status, digest, nextBatch, lane, stored>>
  BY DEF PlanDuplicate, Planning, Conflicts, coordVars, fixedVars
<1>2. /\ work \in Busy /\ work.batch \in Batches /\ work.content \in SentDigests(work.batch)
      /\ work.waiters \in SUBSET Requests
      /\ \A r \in work.waiters : Matches(r, work.batch, work.content) /\ call[r].state # "new"
  BY <1>1, BusyFacts, Zenon
<1>3. "ok" \in CallStates \ {"new"}
  BY DEF CallStates
<1>4. /\ work.batch < nextBatch /\ nextBatch' \in 0..MaxBatch /\ nextBatch <= nextBatch'
  <2>1. work.batch < nextBatch
    BY <1>1, <1>2 DEF ReplicaInv, Writes
  <2>2. nextBatch \in 0..MaxBatch /\ nextBatch' = nextBatch
    BY ZenonT(100), <1>1 DEF ReplicaInv, ReplicaTypeOK
  <2>3. nextBatch <= nextBatch
    BY SMTT(100), <2>2, ReplicaApplyAssumption
  <2> QED BY ZenonT(100), <2>1, <2>2, <2>3
<1>5. Window' /\ cursor' \in 0..(MaxBatch + 1) /\ work' \in {Resting, Draining}
  BY ZenonT(100), <1>1, <1>2, <1>4, AcceptWindow
<1>6. /\ Holders'
      /\ call' \in [Requests -> [state : CallStates, batch : Batches, content : Digests]]
  BY ZenonT(100), <1>1, <1>2, <1>3, <1>5, HandsOver
<1>7. ReplicaTypeOK'
  BY ZenonT(100), <1>1, <1>5, <1>6 DEF ReplicaInv, ReplicaTypeOK
<1>8. Writes' /\ LogSent' /\ LogDigests'
  BY ZenonT(100), <1>1, <1>5, LogUntouched, WorkShapes
<1>9. work.batch \in DOMAIN stored /\ stored[work.batch] = work.content
  <2>1. /\ work.batch \in DOMAIN stored /\ stored[work.batch] \in SentDigests(work.batch)
        /\ \/ digest[work.batch] = stored[work.batch]
           \/ digest[work.batch] = Unknown /\ work.batch \notin identified \cup chunks
    BY <1>1, <1>2 DEF ReplicaInv, Log, LogSent, LogDigests
  <2>2. /\ SentDigests(work.batch) \subseteq Digests \ {Unknown}
        /\ work.batch \notin identified \cup chunks => SentDigests(work.batch) = {Zero}
    BY <1>2, DigestFacts DEF ReplicaInv
  <2>3. CASE digest[work.batch] = stored[work.batch]
    <3>1. digest[work.batch] # Unknown
      BY ZenonT(100), <2>1, <2>2, <2>3
    <3> QED BY ZenonT(100), <1>1, <2>1, <2>3, <3>1
  <2>4. CASE digest[work.batch] = Unknown /\ work.batch \notin identified \cup chunks
    <3>1. SentDigests(work.batch) = {Zero}
      BY ZenonT(100), <2>2, <2>4
    <3> QED BY ZenonT(100), <1>2, <2>1, <3>1
  <2> QED BY ZenonT(100), <2>1, <2>3, <2>4
<1>10. CommittedStays
  BY <1>1 DEF CommittedStays
<1>11. AcksKept'
  BY <1>1, <1>2, <1>9, <1>10, OkAnswer
<1> QED BY ZenonT(100), <1>5, <1>6, <1>7, <1>8, <1>11 DEF ReplicaInv, Log

\* A batch that is not committed is given to its lane.
LEMMA DispatchedInv ==
  ASSUME ReplicaInv, work.pc = "plan", ~guarded, status[work.batch] \in {"None", "Aborted"},
         status' = [status EXCEPT ![work.batch] = "Pending"],
         digest' = [digest EXCEPT ![work.batch] = work.content], Dispatched,
         work.batch < nextBatch', nextBatch' \in 0..MaxBatch, nextBatch <= nextBatch',
         UNCHANGED <<scenario, call, inbox, buffered, stored>>
  PROVE  ReplicaInv'
<1>1. /\ lane' = With(lane, work.batch, [content |-> work.content, waiters |-> work.waiters])
      /\ work' = Accepted /\ cursor' = IF work.moves THEN cursor + 1 ELSE cursor
  BY DEF Dispatched
<1>2. /\ work \in Busy /\ work.batch \in Batches /\ work.content \in Digests
      /\ work.content \in SentDigests(work.batch) /\ work.waiters \in SUBSET Requests
      /\ \A r \in work.waiters : Matches(r, work.batch, work.content)
  BY BusyFacts, Zenon
<1>3. /\ DOMAIN lane' = DOMAIN lane \cup {work.batch}
      /\ lane'[work.batch] = [content |-> work.content, waiters |-> work.waiters]
      /\ \A x \in DOMAIN lane \ {work.batch} : lane'[x] = lane[x]
  <2> DEFINE v == [content |-> work.content, waiters |-> work.waiters]
  <2>1. lane' = With(lane, work.batch, v)
    BY <1>1
  <2> HIDE DEF v
  <2>2. /\ DOMAIN lane' = DOMAIN lane \cup {work.batch} /\ lane'[work.batch] = v
        /\ \A x \in DOMAIN lane \ {work.batch} : lane'[x] = lane[x]
    BY <2>1 DEF With
  <2> QED BY <2>2 DEF v
<1>4. /\ lane'[work.batch] \in Held /\ lane'[work.batch].content = work.content
      /\ lane'[work.batch].waiters = work.waiters
  <2>1. [content |-> work.content, waiters |-> work.waiters] \in Held
    BY ZenonT(100), <1>2 DEF Held
  <2>2. lane'[work.batch] = [content |-> work.content, waiters |-> work.waiters]
    BY ZenonT(100), <1>3
  <2> QED BY SMTT(100), <2>1, <2>2
<1>5. /\ status \in [Batches -> {"None", "Pending", "Aborted", "Committed"}]
      /\ digest \in [Batches -> Digests \cup {Hole}]
      /\ DOMAIN lane \subseteq Batches /\ \A x \in DOMAIN lane : lane[x] \in Held
      /\ nextBatch \in 0..MaxBatch
  BY Zenon DEF ReplicaInv, ReplicaTypeOK
<1>6. /\ status'[work.batch] = "Pending" /\ digest'[work.batch] = work.content
      /\ \A x \in Batches \ {work.batch} : status'[x] = status[x] /\ digest'[x] = digest[x]
      /\ status' \in [Batches -> {"None", "Pending", "Aborted", "Committed"}]
      /\ digest' \in [Batches -> Digests \cup {Hole}]
  BY ZenonT(100), <1>2, <1>5
<1>7. Window' /\ cursor' \in 0..(MaxBatch + 1) /\ work' \in {Resting, Draining}
  BY ZenonT(100), <1>1, <1>2, AcceptWindow
<1>8. ReplicaTypeOK'
  <2>1. DOMAIN lane' \subseteq Batches /\ \A x \in DOMAIN lane' : lane'[x] \in Held
    BY <1>2, <1>3, <1>4, <1>5
  <2> QED BY <1>6, <1>7, <2>1 DEF ReplicaInv, ReplicaTypeOK
<1>9. Stays
  BY DEF Stays
<1>10. InboxSent' /\ BufferedSent' /\ WorkSent'
  BY <1>7, <1>9, HoldersStay, WorkShapes
<1>11. CallsSent' /\ LaneSent'
  <2>1. \A x : SentDigests(x)' = SentDigests(x)
    BY DEF SentDigests, identified, chunks
  <2>2. CallsSent'
    BY ZenonT(100), <2>1 DEF ReplicaInv, Holders, CallsSent
  <2>3. ASSUME NEW b \in DOMAIN lane'
        PROVE  /\ lane'[b].content \in SentDigests(b)
               /\ \A q \in lane'[b].waiters : Matches(q, b, lane'[b].content)
    <3>1. CASE b = work.batch
      BY ZenonT(100), <1>2, <1>4, <3>1
    <3>2. CASE b # work.batch
      <4>1. b \in DOMAIN lane /\ lane'[b] = lane[b]
        BY ZenonT(100), <1>3, <2>3, <3>2
      <4> QED BY ZenonT(100), <4>1 DEF ReplicaInv, Holders, LaneSent
    <3> QED BY <3>1, <3>2
  <2>4. LaneSent'
    BY ZenonT(100), <1>9, <2>1, <2>3, MatchesStay DEF LaneSent
  <2> QED BY <2>2, <2>4
<1>12. Writes'
  <2>1. work'.pc \notin {"guarded", "writing"}
    BY <1>7, WorkShapes
  <2>2. ~guarded'
    BY DEF guarded
  <2>3. \A x \in DOMAIN lane' : status'[x] = "Pending" /\ digest'[x] = lane'[x].content
    <3>1. \A x \in DOMAIN lane : status[x] = "Pending" /\ digest[x] = lane[x].content
      BY ZenonT(100) DEF ReplicaInv, Writes
    <3>2. \A x \in DOMAIN lane : x \in Batches
      BY ZenonT(100), <1>5
    <3>3. ASSUME NEW x \in DOMAIN lane', x # work.batch
          PROVE  status'[x] = "Pending" /\ digest'[x] = lane'[x].content
      <4>1. x \in DOMAIN lane /\ lane'[x] = lane[x]
        BY ZenonT(100), <1>3, <3>3
      <4>2. status'[x] = status[x] /\ digest'[x] = digest[x]
        BY ZenonT(100), <1>6, <3>2, <3>3, <4>1
      <4> QED BY ZenonT(100), <3>1, <4>1, <4>2
    <3>4. status'[work.batch] = "Pending" /\ digest'[work.batch] = lane'[work.batch].content
      BY ZenonT(100), <1>4, <1>6
    <3> QED BY ZenonT(100), <3>3, <3>4
  <2>4. \A x \in Batches : status'[x] # "None" => x < nextBatch'
    <3>1. \A x \in Batches : status[x] # "None" => x < nextBatch
      BY Zenon DEF ReplicaInv, Writes
    <3>2. \A x \in Batches : x < nextBatch => x < nextBatch'
      BY <1>5 DEF Batches
    <3> QED BY ZenonT(100), <1>6, <3>1, <3>2
  <2> QED BY <2>1, <2>2, <2>3, <2>4 DEF Writes
<1>13. LogSent' /\ LogDigests' /\ CommittedStays
  BY ZenonT(100), <1>2, NotCommitted
<1>14. AcksKept'
  BY <1>13, AcksStay
<1> QED BY <1>7, <1>8, <1>10, <1>11, <1>12, <1>13, <1>14 DEF ReplicaInv, Holders, Log

LEMMA PlanNewInv ==
  ASSUME ReplicaInv, PlanNew
  PROVE  ReplicaInv'
<1>1. /\ work.pc = "plan" /\ ~guarded /\ status[work.batch] = "None" /\ work.batch = nextBatch
      /\ status' = [status EXCEPT ![work.batch] = "Pending"]
      /\ digest' = [digest EXCEPT ![work.batch] = work.content]
      /\ nextBatch' = nextBatch + 1 /\ Dispatched
      /\ UNCHANGED <<scenario, call, inbox, buffered, stored>>
  BY DEF PlanNew, Planning, fixedVars
<1>2. work.batch < nextBatch' /\ nextBatch' \in 0..MaxBatch /\ nextBatch <= nextBatch'
  <2>1. work.batch \in Batches
    BY <1>1, BusyFacts
  <2> QED BY <1>1, <2>1, ReplicaApplyAssumption DEF Batches
<1> QED BY <1>1, <1>2, DispatchedInv

\* A batch of the worker fails: its waiters are told, and it is aborted or, when its
\* chunk cannot be registered, left reserved.
LEMMA UndoneInv ==
  ASSUME ReplicaInv, work.pc \in {"plan", "writing"}, status[work.batch] # "Committed",
         work.batch \notin DOMAIN lane,
         NEW s \in {"Pending", "Aborted"}, status' = [status EXCEPT ![work.batch] = s],
         digest' = digest \/ digest' = [digest EXCEPT ![work.batch] = work.content],
         NEW st \in CallStates \ {"new", "ok"}, call' = Answered(work.waiters, st),
         work' = Resting, work.batch < nextBatch', nextBatch' \in 0..MaxBatch,
         nextBatch <= nextBatch',
         UNCHANGED <<scenario, inbox, cursor, buffered, lane, stored>>
  PROVE  ReplicaInv'
<1>1. /\ work \in Busy /\ work.batch \in Batches /\ work.content \in Digests
      /\ work.waiters \in SUBSET Requests
      /\ \A r \in work.waiters : call[r].state # "new"
  BY BusyFacts, Zenon
<1>2. /\ Holders'
      /\ call' \in [Requests -> [state : CallStates, batch : Batches, content : Digests]]
  BY <1>1, HandsOver
<1>3. /\ status \in [Batches -> {"None", "Pending", "Aborted", "Committed"}]
      /\ digest \in [Batches -> Digests \cup {Hole}]
      /\ DOMAIN lane \subseteq Batches /\ nextBatch \in 0..MaxBatch
  BY Zenon DEF ReplicaInv, ReplicaTypeOK
<1>4. /\ \A x \in Batches \ {work.batch} : status'[x] = status[x] /\ digest'[x] = digest[x]
      /\ status' \in [Batches -> {"None", "Pending", "Aborted", "Committed"}]
      /\ digest' \in [Batches -> Digests \cup {Hole}]
  BY ZenonT(100), <1>1, <1>3
<1>5. ReplicaTypeOK'
  BY <1>2, <1>4 DEF ReplicaInv, ReplicaTypeOK
<1>6. Writes'
  <2>1. work'.pc \notin {"guarded", "writing"}
    BY WorkShapes
  <2>2. guarded' => DOMAIN lane' = {}
    BY DEF ReplicaInv, Writes, guarded
  <2>3. \A x \in DOMAIN lane' : status'[x] = "Pending" /\ digest'[x] = lane'[x].content
    BY <1>3, <1>4 DEF ReplicaInv, Writes
  <2>4. \A x \in Batches : status'[x] # "None" => x < nextBatch'
    <3>1. \A x \in Batches : status[x] # "None" => x < nextBatch
      BY Zenon DEF ReplicaInv, Writes
    <3> QED BY <1>3, <1>4, <3>1 DEF Batches
  <2> QED BY <2>1, <2>2, <2>3, <2>4 DEF Writes
<1>7. LogSent' /\ LogDigests' /\ CommittedStays
  BY ZenonT(100), <1>1, NotCommitted
<1>8. AcksKept'
  BY ZenonT(100), <1>1, <1>7, OtherAnswer
<1>9. Window'
  BY ZenonT(100), <1>1, RestWindow
<1> QED BY <1>2, <1>5, <1>6, <1>7, <1>8, <1>9 DEF ReplicaInv, Log

\* What a lane writes is Pending.
LEMMA LanePending ==
  ASSUME ReplicaInv, NEW b, status[b] # "Pending"
  PROVE  b \notin DOMAIN lane
BY DEF ReplicaInv, Writes

LEMMA PlanRevivedInv ==
  ASSUME ReplicaInv, PlanRevived
  PROVE  ReplicaInv'
<1>1. /\ work.pc = "plan" /\ ~guarded /\ status[work.batch] = "Aborted"
      /\ status' = [status EXCEPT ![work.batch] = "Pending"]
      /\ digest' = [digest EXCEPT ![work.batch] = work.content]
      /\ UNCHANGED <<scenario, inbox, buffered, nextBatch, stored>>
  BY DEF PlanRevived, Planning, fixedVars
<1>2. work.batch < nextBatch' /\ nextBatch' \in 0..MaxBatch /\ nextBatch <= nextBatch'
  <2>1. work.batch \in Batches
    BY <1>1, BusyFacts
  <2>2. work.batch < nextBatch
    BY <1>1, <2>1 DEF ReplicaInv, Writes
  <2>3. nextBatch \in 0..MaxBatch /\ nextBatch \in Nat
    BY ReplicaApplyAssumption DEF ReplicaInv, ReplicaTypeOK
  <2> QED BY <1>1, <2>2, <2>3
<1>3. CASE Dispatched /\ UNCHANGED call
  BY <1>1, <1>2, <1>3, DispatchedInv
<1>4. CASE call' = Answered(work.waiters, "refused") /\ work' = Resting /\ UNCHANGED <<lane, cursor>>
  <2>1. "refused" \in CallStates \ {"new", "ok"}
    BY DEF CallStates
  <2>2. work.batch \notin DOMAIN lane
    BY <1>1, LanePending
  <2> QED BY <1>1, <1>2, <1>4, <2>1, <2>2, UndoneInv
<1> QED BY <1>3, <1>4 DEF PlanRevived

LEMMA DispatchFailsInv ==
  ASSUME ReplicaInv, DispatchFails
  PROVE  ReplicaInv'
<1>1. /\ work.pc = "plan" /\ status[work.batch] \in {"None", "Aborted"}
      /\ status' = [status EXCEPT ![work.batch] = "Aborted"]
      /\ digest' = [digest EXCEPT ![work.batch] = work.content]
      /\ call' = Answered(work.waiters, "failed") /\ work' = Resting
      /\ UNCHANGED <<scenario, inbox, cursor, buffered, lane, stored>>
      /\ \/ status[work.batch] = "None" /\ work.batch = nextBatch /\ nextBatch' = nextBatch + 1
         \/ status[work.batch] = "Aborted" /\ UNCHANGED nextBatch
  BY DEF DispatchFails, Planning, fixedVars
<1>2. work.batch < nextBatch' /\ nextBatch' \in 0..MaxBatch /\ nextBatch <= nextBatch'
  <2>1. work.batch \in Batches /\ nextBatch \in 0..MaxBatch
    BY <1>1, BusyFacts DEF ReplicaInv, ReplicaTypeOK
  <2>2. status[work.batch] = "Aborted" => work.batch < nextBatch
    BY <2>1 DEF ReplicaInv, Writes
  <2>3. work.batch \in Nat /\ nextBatch \in Nat /\ MaxBatch \in Nat /\ work.batch < MaxBatch
    BY <2>1, ReplicaApplyAssumption DEF Batches
  <2>4. CASE work.batch = nextBatch /\ nextBatch' = nextBatch + 1
    BY <2>3, <2>4
  <2>5. CASE work.batch < nextBatch /\ nextBatch' = nextBatch
    BY <2>1, <2>3, <2>5
  <2> QED BY ZenonT(100), <1>1, <2>2, <2>4, <2>5
<1>3. "failed" \in CallStates \ {"new", "ok"}
  BY DEF CallStates
<1>4. work.batch \notin DOMAIN lane
  BY <1>1, LanePending
<1> QED BY <1>1, <1>2, <1>3, <1>4, UndoneInv
=============================================================================
