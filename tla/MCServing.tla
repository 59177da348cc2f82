------------------------------ MODULE MCServing ------------------------------
(***************************************************************************)
(* Small instances of calls that own several jobs at once and must end     *)
(* them all: a fetch over two lanes, the opening of an owned engine, a     *)
(* native resume, and the server's run to its shutdown.  A behaviour       *)
(* follows one of them, the subject.                                       *)
(***************************************************************************)
EXTENDS Fetch, OwnedEngine, NativeResume, ServerRun

VARIABLE subject

mcVars == <<subject, fxVars, openVars, resumeVars, serverVars>>

\* Three batches on two lanes; the first and the third share a lane and are in
\* different packs.
Reading(bounded, mode, unresolved, bytes, perLane, status) ==
  [bounded |-> bounded, mode |-> mode, unresolved |-> unresolved, start |-> 1,
   maxBytes |-> 7, perLane |-> perLane, select |-> 3, window |-> 4,
   lane |-> <<1, 2, 1>>, bytes |-> bytes, pack |-> <<1, 1, 2>>, status |-> status]
Readings ==
  LET C == "Committed"
  IN  {Reading(FALSE, "Ordered", FALSE, <<1, 1, 1>>, 4, <<C, "Pending", C>>),
       Reading(TRUE, "Replicated", FALSE, <<1, 1, 1>>, 4, <<C, "Aborted", C>>),
       Reading(TRUE, "Ordered", TRUE, <<5, 1, 5>>, 2, <<C, C, "Unresolved">>),
       Reading(TRUE, "AsAvailable", FALSE, <<1, 1, 1>>, 4, <<C, C, C>>)}

\* A plan that the byte limit cuts on one lane and not on the other.
CutReadings ==
  LET C == "Committed"
  IN  {[bounded |-> FALSE, mode |-> "Ordered", unresolved |-> FALSE, start |-> 1,
        maxBytes |-> 7, perLane |-> 4, select |-> 3, window |-> 4,
        lane |-> <<1, 2, 1, 2>>, bytes |-> <<5, 1, 5, 1>>, pack |-> <<1, 1, 2, 2>>,
        status |-> <<C, C, C, C>>]}

\* Three boot collections on two lanes.
BootPlan == <<1, 2, 1>>

\* Resumes whose counters suffice, and resumes that run out of one of them.
Limits(p, n, s, j, f) ==
  [k \in Counters |-> CASE k = "partitions" -> p [] k = "batches" -> n
                        [] k = "steps" -> s [] k = "jobs" -> j [] OTHER -> f]
Replay(parts, transport, limits) ==
  [kind |-> "replay", parts |-> parts, transport |-> transport, lanes |-> 0, limits |-> limits]
CollectOn(n, limits) ==
  [kind |-> "collect", parts |-> << >>, transport |-> FALSE, lanes |-> n, limits |-> limits]
Resumes ==
  {Replay(<<"p", "q">>, TRUE, Limits(2, 4, 10, 6, 4)),
   Replay(<<"p", "q">>, TRUE, Limits(2, 3, 10, 6, 4)),
   Replay(<<"p", "q">>, TRUE, Limits(1, 4, 10, 6, 4)),
   Replay(<<"q">>, TRUE, Limits(1, 4, 2, 6, 4)),
   Replay(<<"p">>, FALSE, Limits(2, 4, 10, 6, 4)),
   CollectOn(2, Limits(0, 0, 4, 2, 0)),
   CollectOn(2, Limits(0, 0, 3, 2, 0))}
Ends == [p \in {"p", "q"} |-> IF p = "p" THEN 3 ELSE 1]

\* One request of each protocol.
OneOfEach == [x \in {"r", "k", "h"} |-> IF x = "r" THEN "rest" ELSE IF x = "k" THEN "kafka" ELSE "h3"]

MCInit ==
  /\ subject \in {"fetch", "opening", "resume", "server"}
  /\ FetchInit /\ OpenInit /\ ResumeInit /\ ServerInit
  /\ subject # "fetch" => fxCase = CHOOSE r \in FetchCases : TRUE
  /\ subject # "resume" => resume.case = CHOOSE r \in ResumeCases : TRUE

FetchRuns(A) == subject = "fetch" /\ A /\ UNCHANGED <<subject, openVars, resumeVars, serverVars>>
OpeningRuns(A) == subject = "opening" /\ A /\ UNCHANGED <<subject, fxVars, resumeVars, serverVars>>
ResumeRuns(A) == subject = "resume" /\ A /\ UNCHANGED <<subject, fxVars, openVars, serverVars>>
ServerRuns(A) == subject = "server" /\ A /\ UNCHANGED <<subject, fxVars, openVars, resumeVars>>

\* Replicas are followed for the fetch that looks at them.
ReplicasMatter == fxCase.mode # "Replicated" => UNCHANGED fxPart.replicas

\* Any two of the requests and streams reach the server.
TwoBegin ==
  Cardinality({x \in Calls : scalls'[x].at # "new"})
    + Cardinality({x \in Streams : streams'[x].at # "new"}) <= 2

MCNext ==
  \/ FetchRuns(FetchNext /\ ReplicasMatter)
  \/ OpeningRuns(OpenNext)
  \/ ResumeRuns(ResumeNext)
  \/ ServerRuns(ServerNext /\ TwoBegin)

MCSpec == MCInit /\ [][MCNext]_mcVars

\* The threads and tasks run (see FetchFairness, FairOpenSpec, ServerFairness).
MCFairSpec ==
  /\ MCSpec
  /\ WF_mcVars(FetchRuns(FetchSteps)) /\ WF_mcVars(FetchRuns(SendRefused))
  /\ \A l \in 1..2 : WF_mcVars(FetchRuns(l \in FxLanes /\ (LanePlans(l) \/ LaneReads(l))))
  /\ WF_mcVars(OpeningRuns(MainSteps))
  /\ \A s \in Lanes : WF_mcVars(OpeningRuns(ThreadSteps(s)))
  /\ \A x \in Calls : /\ WF_mcVars(ServerRuns(CallAnswers(x)))
                       /\ WF_mcVars(ServerRuns(CallBody(x, TRUE)))
                       /\ WF_mcVars(ServerRuns(CallEngine(x, TRUE)))
  /\ \A s \in Streams : /\ WF_mcVars(ServerRuns(StreamSends(s)))
                         /\ WF_mcVars(ServerRuns(StreamDelivers(s)))
                         /\ WF_mcVars(ServerRuns(StreamClientEnds(s)))
                         /\ WF_mcVars(ServerRuns(StreamEnds(s)))
                         /\ WF_mcVars(ServerRuns(StreamEngine(s, TRUE)))
  /\ \A l \in Listeners : WF_mcVars(ServerRuns(ListenerStops(l)))
  /\ WF_mcVars(ServerRuns(ShutdownBegins(FALSE)))
  /\ WF_mcVars(ServerRuns(FinalSync)) /\ WF_mcVars(ServerRuns(ProcessEnds))

\* Every call that owns jobs ends: a bounded fetch returns, an opening and the drop
\* of what it returned finish, and a server that begins to shut down is gone, even
\* when workers stop with commands in their queues (see BoundedReturns, CustodyEnds
\* and ShutdownCompletes; Reply::drop, the joins of owned_engine.rs, run).
OwnersEnd ==
  /\ []<>(subject = "fetch" => BoundedReturned)
  /\ []<>(subject = "opening" => CustodyEnded)
  /\ ShutdownCompletes
=============================================================================
