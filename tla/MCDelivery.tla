----------------------------- MODULE MCDelivery -----------------------------
(***************************************************************************)
(* Small instances of what hands appends on: the durable sink's dispatcher *)
(* and the byte-bounded channel.  A behaviour follows one of them, the     *)
(* subject.                                                                *)
(***************************************************************************)
EXTENDS DurableSink, ByteChannel

VARIABLE subject

mcVars == <<subject, sinkVars, channelVars>>

SentBytes == <<1, 2, 2, 4>>

\* The sink under backpressure or availability, committed-only or not, with a
\* failing apply, a failing checkpoint load, an abort, another owner or a crash.
SinkCase(availability, committedOnly, blocking, maxItems, modes, faults, loads, aborts, others, crash) ==
  [availability |-> availability, committedOnly |-> committedOnly, blocking |-> blocking,
   maxItems |-> maxItems, modes |-> modes,
   bounds |-> [faults |-> faults, loads |-> loads, aborts |-> aborts, others |-> others,
               crashes |-> crash]]
SinkCases ==
  {SinkCase(FALSE, TRUE, TRUE, 2, {FALSE}, 1, 0, 0, 1, 1),
   SinkCase(FALSE, FALSE, TRUE, 2, {FALSE}, 1, 0, 1, 1, 1),
   SinkCase(TRUE, FALSE, FALSE, 1, {TRUE, FALSE}, 0, 1, 0, 0, 1),
   SinkCase(TRUE, TRUE, TRUE, 1, {TRUE}, 0, 0, 0, 0, 0)}

MCInit ==
  /\ subject \in {"sink", "channel"}
  /\ SinkInit /\ ChannelInit
  /\ subject # "sink" => options = CHOOSE o \in Scenarios : TRUE

SinkRuns(A) == subject = "sink" /\ A /\ UNCHANGED <<subject, channelVars>>

\* Under availability a committed-only sink has one writer at a time.
Paced == options.availability /\ options.committedOnly =>
           Cardinality({w \in Writers : writer'[w].pc # "idle"}) <= 1

MCNext ==
  \/ SinkRuns(SinkNext /\ Paced)
  \/ subject = "channel" /\ ChannelNext /\ UNCHANGED <<subject, sinkVars>>

\* The sink's threads run (see SinkFairness).
MCFairSpec ==
  /\ MCInit /\ [][MCNext]_mcVars
  /\ \A w \in Writers :
       WF_mcVars(SinkRuns(PlaceRefused(w) \/ LaneSyncs(w) \/ Enqueue(w) \/ Complete(w)))
  /\ WF_mcVars(SinkRuns(EnqueueDecision \/ FinalizeRefused))
  /\ WF_mcVars(SinkRuns(WorkerStep))
  /\ SF_mcVars(SinkRuns(StartTick)) /\ SF_mcVars(SinkRuns(StartReady))
  /\ SF_mcVars(SinkRuns(DecisionApplied))
  /\ WF_mcVars(SinkRuns(ReplayStep)) /\ SF_mcVars(SinkRuns(ReplayAppend))
=============================================================================
