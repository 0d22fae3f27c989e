----------------------- MODULE CheckPipelineRefinement -----------------------
(***************************************************************************)
(* CheckPipeline against its two abstract specifications.                  *)
(*                                                                         *)
(* IncidentLifecycle is implemented with any number of executors, faults   *)
(* and outlived locks, and staff who resolve and close incidents.          *)
(* SequentialMonitoring is implemented by one executor that nothing        *)
(* disturbs: the pipeline then computes exactly the sequential rules.      *)
(***************************************************************************)
EXTENDS CheckPipeline

LifecycleState(i) ==
  CASE Active(i)                                   -> "active"
    [] incident[i].status \in {"resolved", "closed"} -> "resolved"
    [] OTHER                                       -> "none"

\* What the lifecycle sees of the database: the recorded observations, the
\* state of every incident and the slot it started at.
RecordedStatuses == [s \in Slot |-> RawOf(results[s])]
LifecycleStates == [i \in IncidentId |-> LifecycleState(i)]
StartSlots == [i \in IncidentId |-> incident[i].startedAt]

Lifecycle == INSTANCE IncidentLifecycle WITH
  Status <- MonitoringStatus,
  NoStatus <- "none",
  InitiallyRecorded <- 1 .. LegacySlots,
  recorded <- RecordedStatuses,
  state <- LifecycleStates,
  startedAt <- StartSlots

\* The pipeline implements the incident lifecycle: the steps of overlapping
\* checks, retries and recoveries only ever record, open and resolve.
ImplementsLifecycle == Lifecycle!Spec

-----------------------------------------------------------------------------
\* Between the insert of the row and the change of the incident the abstract
\* incident is already in its new state.
CreatePending  == \E e \in Executor : pc[e] \in {"advisory", "recheck", "commit"}
ResolvePending == \E e \in Executor : pc[e] = "resolve"

SequentialIncident ==
  IF CreatePending THEN "active"
  ELSE IF ResolvePending THEN "resolved"
  ELSE IF ActiveIncidents # {} THEN "active"
  ELSE IF \E i \in IncidentId : Exists(i) THEN "resolved" ELSE "none"

ProbeOf(status) ==
  [ probeAborted |-> status = "unknown", infrastructureFailure |-> FALSE,
    httpOk |-> status # "down",
    responseTimeMs |-> IF status = "warning" THEN SlowThresholdMs ELSE NoResponseTime ]

NothingProbed == [ProbeOf("normal") EXCEPT !.responseTimeMs = NoResponseTime]
RecordedCount == Cardinality(Recorded(results))
NewestRow == results[NthNewest(results, 1)]

\* What the sequential rules see: the observations newest first, the incidents
\* opened, the newest card and the newest probe.
ObservedHistory == [n \in 1 .. RecordedCount |-> RawOf(results[NthNewest(results, n)])]
OpenedIncidents == {i \in IncidentId : Exists(i)}
OpenedCount == Cardinality(OpenedIncidents) + (IF CreatePending THEN 1 ELSE 0)
NewestCard == IF RecordedCount = 0 THEN "unknown" ELSE NewestRow.status
NewestProbe == IF RecordedCount = 0 THEN NothingProbed ELSE ProbeOf(RawOf(NewestRow))

Sequential == INSTANCE SequentialMonitoring WITH
  ResponseTimes <- {NoResponseTime, SlowThresholdMs},
  MaxChecks <- MaxSlot,
  history <- ObservedHistory,
  incident <- SequentialIncident,
  lifecycles <- OpenedCount,
  card <- NewestCard,
  lastProbe <- NewestProbe

\* One undisturbed executor computes the sequential rules, slot by slot: same
\* rows, same cards, same incidents at the same checks.
ImplementsSequentialMonitoring == Sequential!Spec
=============================================================================
